---- MODULE Spec2Model ----
(***************************************************************************)
(* Model of MoHKale/DownloadQueue.                                         *)
(*                                                                         *)
(* Three parts of the repository are modelled, each with its own           *)
(* specification over the shared variable list:                            *)
(*                                                                         *)
(*   Spec          src/download_queue/queue.py + downloader.py: the        *)
(*                 semaphore based DownloadQueue and the Downloader        *)
(*                 threads it starts (FairSpec: the same with fairness).   *)
(*   OverflowSpec  src/download_queue/download_queue.py: the DownloadQueue *)
(*                 with an OverflowQueue, and its DownloadThreads.         *)
(*   RetrySpec     src/download_queue/decorators.py: repeat_on_error.      *)
(*                                                                         *)
(* Threads are interleaved at the granularity CPython gives them: a        *)
(* semaphore operation, a statement under the RLock, and a single list     *)
(* operation (append, pop, remove, len) are atomic; a thread switch may    *)
(* happen between any two of them.                                         *)
(***************************************************************************)
EXTENDS Integers, Sequences, FiniteSets, TLC

\* ------------------------------------------------------------------ bounds

\* capacity given to DownloadQueue(length=...) in queue.py
max_length == 2
\* threads that call DownloadQueue.add
NumCallers == 2
\* downloaders constructed over a run (all callers together)
NumDownloads == 3
\* threads that call DownloadQueue.wait_until_finished
NumWaiters == 1
\* threads that call wait_until_finished at the same time
NumDrainers == 2

\* capacity given to DownloadQueue(queue_span) in download_queue.py
queue_span == 2
\* DownloadThreads created over a run of the overflow based queue
NumRequests == 4

\* largest attempt_count a downloader is given (the smallest is -1)
MaxAttemptCount == 3
\* largest attempt_interval a downloader is given (the smallest is -1)
MaxAttemptInterval == 2
\* calls of the decorated _download made on one downloader
MaxInvocations == 2
\* calls of download() made on one downloader
MaxDownloadCalls == 2
\* largest value of MINIMUM_ATTEMPT_COUNT (constants.py) considered
MaxTryCount == 3
\* calls of download made on one GenericDownload
MaxDownloads == 3
\* calls of add given arguments the downloader's constructor rejects
MaxRaised == 1
\* @repeat_on_error(('attempt_count', 10), ('attempt_interval', 3))
DefaultAttemptCount == 10
DefaultAttemptInterval == 3

Callers == 1..NumCallers
Downloads == 1..NumDownloads
Waiters == 1..NumWaiters
Drainers == 1..NumDrainers
Threads == 1..NumRequests
\* OverflowQueue.queue_pointer is None or an index: <<>> or <<index>>.
None == <<>>

\* The values a downloader's attempt_count and attempt_interval are given.
AttemptCounts == -1..MaxAttemptCount
AttemptIntervals == -1..MaxAttemptInterval

\* The values MINIMUM_ATTEMPT_COUNT can have.
TryCounts == 1..MaxTryCount

\* What the function wrapped by repeat_on_error can return.
Values == {"v1", "v2"}

\* What the wrapped Downloader._download can do: return, raise an Exception
\* after the retries are used up, or raise KeyboardInterrupt.
Outcomes == {"ok", "fail", "interrupt"}

VARIABLES
    \* ---- queue.py: DownloadQueue
    qpc,             \* the DownloadQueue object: "new" before __init__, "ready",
                     \* "valueerror" (__init__ raised), "finalizing", "finalized"
    capacity,        \* the length given to __init__, kept as self.max_length
    queue_lock,      \* the thread that holds self._queue_lock (0: nobody)
    length,          \* self.length
    available_s,     \* value of self._available_s
    downloads_s,     \* value of self._downloads_s
    cpc,             \* per caller: position inside add
    cdl,             \* per caller: the downloader add has constructed (0: none)
    ndl,             \* downloaders constructed so far
    wpc,             \* per waiter: position inside wait_until_finished
    wcnt,            \* per waiter: slots of _available_s it holds
    spc,             \* per waiter thread: "out" of, "in" or past the "exit" of
                     \* a with block on the queue
    \* ---- downloader.py: Downloader
    dpc,             \* per downloader: position of its thread
    outcome,         \* per downloader: what _download did ("none": not yet)
    block_on_error,  \* per downloader: self.block_on_error
    complete,        \* per downloader: self.complete
    hooks,           \* per downloader: times self.comhook was invoked
    \* ---- observations (history, read by no action's guard)
    released,        \* slots given back by _complete_handler so far
    fullAtCall,      \* per caller: length = max_length when add was called
    relAtCall,       \* per caller: value of released when add was called
    clean,           \* per waiter: no add in progress since the wait was called
    busyAtCall,      \* per waiter: some download was live when the wait was called
    sexc,            \* per waiter thread: its with block was left by an exception
    sadded,          \* per waiter thread: downloaders whose add returned while
                     \* its with block was open
    nraised,         \* calls of add that the downloader's constructor ended
                     \* with an exception
    \* ---- download_queue.py: DownloadQueue, OverflowQueue, DownloadThread
    queue_contents,  \* self._queue_contents: the started threads
    overflow_queue,  \* self._overflow_queue._queue: the held threads
    apc,             \* position of the caller inside add
    adt,             \* the DownloadThread add has created (0: none)
    nthreads,        \* DownloadThreads created so far
    tpc,             \* per thread: its position
    tptr,            \* per thread: the queue_pointer its dequeue computed
    tpop,            \* per thread: the thread its dequeue returned (0: none)
    texc,            \* per thread: the exception that ended it ("none": none)
    fpc,             \* position of the thread inside wait_to_finish
    \* ---- observations (history, read by no action's guard)
    enqueued,        \* the threads in the order they were held
    nfinished,       \* downloads that have returned so far
    sawHeld,         \* per thread: remove found the overflow queue non-empty
    dLive,           \* per thread: change its remove made to len(_queue_contents)
    dHeld,           \* per thread: change its remove made to len(_overflow_queue)
    fclean,          \* no add in progress since wait_to_finish was called
    \* ---- decorators.py: repeat_on_error
    has_attempt_count,     \* hasattr(self, 'attempt_count')
    self_attempt_count,    \* self.attempt_count (0 when absent)
    has_attempt_interval,  \* hasattr(self, 'attempt_interval')
    self_attempt_interval, \* self.attempt_interval (0 when absent)
    rpc,             \* position inside wrapped
    attempt_count,   \* the local attempt_count of wrapped
    attempt_delay,   \* the local attempt_delay of wrapped
    attempt,         \* the argument of the running recursively_invoke_func
    result,          \* what wrapped returned ("noresult": nothing yet)
    logged,          \* calls of self.logger.exception
    context,         \* attempts whose exceptions are linked by __context__ from
                     \* the exception raised last, oldest first, itself included
    invocations,     \* calls of wrapped made so far on this downloader
    \* ---- observations (history, read by no action's guard)
    calls,           \* invocations of the wrapped function
    sleeps,          \* calls of time.sleep
    waited,          \* total time slept
    history,         \* per invocation: what the function did
    \* ---- generic_download.py: GenericDownload.download and its decorators
    gd_pc,           \* position inside the decorated download
    status,          \* self.status
    try_count,       \* the attempt_count given to try_upto_x_times
    X,               \* the loop variable of try_upto_x_times
    gd_exc,          \* the exception in flight ("none": none)
    \* ---- observations (history, read by no action's guard)
    transfers,       \* transfers begun (line 86 reached)
    gd_sleeps,       \* calls of sleep by delay_exception
    gd_invocations,  \* calls of download made on the instance
    gd_history       \* per transfer: what it did

semvars == <<qpc, capacity, queue_lock, length, available_s, downloads_s,
             cpc, cdl, ndl, wpc, wcnt, spc,
             dpc, outcome, block_on_error, complete, hooks,
             released, fullAtCall, relAtCall, clean, busyAtCall, sexc, sadded,
             nraised>>

ovfvars == <<queue_contents, overflow_queue, apc, adt, nthreads, tpc, tptr,
             tpop, texc, fpc, enqueued, nfinished, sawHeld, dLive, dHeld,
             fclean>>

retryvars == <<has_attempt_count, self_attempt_count, has_attempt_interval,
               self_attempt_interval, rpc, attempt_count, attempt_delay,
               attempt, result, logged, context, invocations, calls, sleeps,
               waited, history>>

gdvars == <<gd_pc, status, try_count, X, gd_exc, transfers, gd_sleeps,
            gd_invocations, gd_history>>

vars == <<semvars, ovfvars, retryvars, gdvars>>

\* ------------------------------------------------- queue.py: DownloadQueue

\* DownloadQueue.__init__: length 0, _available_s full, _downloads_s depleted.
SemInit ==
    /\ qpc = "ready"
    /\ capacity = max_length
    /\ queue_lock = 0
    /\ spc = [w \in Waiters |-> "out"]
    /\ sexc = [w \in Waiters |-> FALSE]
    /\ sadded = [w \in Waiters |-> {}]
    /\ nraised = 0
    /\ length = 0
    /\ available_s = max_length
    /\ downloads_s = 0
    /\ cpc = [c \in Callers |-> "idle"]
    /\ cdl = [c \in Callers |-> 0]
    /\ ndl = 0
    /\ wpc = [w \in Waiters |-> "idle"]
    /\ wcnt = [w \in Waiters |-> 0]
    /\ dpc = [d \in Downloads |-> "new"]
    /\ outcome = [d \in Downloads |-> "none"]
    /\ block_on_error = [d \in Downloads |-> FALSE]
    /\ complete = [d \in Downloads |-> FALSE]
    /\ hooks = [d \in Downloads |-> 0]
    /\ released = 0
    /\ fullAtCall = [c \in Callers |-> FALSE]
    /\ relAtCall = [c \in Callers |-> 0]
    /\ clean = [w \in Waiters |-> FALSE]
    /\ busyAtCall = [w \in Waiters |-> FALSE]

\* DownloadQueue.__init__, lines 33-41, in a program whose drains are made by
\* the threads of Drainers.
DrainSemInit ==
    /\ qpc = "ready"
    /\ capacity = max_length
    /\ queue_lock = 0
    /\ spc = [w \in Drainers |-> "out"]
    /\ sexc = [w \in Drainers |-> FALSE]
    /\ sadded = [w \in Drainers |-> {}]
    /\ nraised = 0
    /\ length = 0
    /\ available_s = max_length
    /\ downloads_s = 0
    /\ cpc = [c \in Callers |-> "idle"]
    /\ cdl = [c \in Callers |-> 0]
    /\ ndl = 0
    /\ wpc = [w \in Drainers |-> "idle"]
    /\ wcnt = [w \in Drainers |-> 0]
    /\ dpc = [d \in Downloads |-> "new"]
    /\ outcome = [d \in Downloads |-> "none"]
    /\ block_on_error = [d \in Downloads |-> FALSE]
    /\ complete = [d \in Downloads |-> FALSE]
    /\ hooks = [d \in Downloads |-> 0]
    /\ released = 0
    /\ fullAtCall = [c \in Callers |-> FALSE]
    /\ relAtCall = [c \in Callers |-> 0]
    /\ clean = [w \in Drainers |-> FALSE]
    /\ busyAtCall = [w \in Drainers |-> FALSE]

\* A download is live from the increment of length in add to the decrement in
\* _complete_handler.
Live(d) == dpc[d] \in {"running", "hook_dec"}
\* A downloader's thread runs from begin() to the end of download(); until
\* the hook has released _available_s it occupies a slot.
Busy(d) == dpc[d] \in {"running", "hook_dec", "hook_acquire", "hook_release"}
Finished(d) == dpc[d] \in {"done", "raised"}
AddInProgress == \E c \in Callers : cpc[c] # "idle"
WaitInProgress == \E w \in DOMAIN wpc : wpc[w] \in {"acquiring", "releasing"}

\* add, lines 74-75: the downloader is constructed with the queue's
\* _complete_handler as its completion hook, before any semaphore is touched.
AddCall(c, boe) ==
    /\ qpc = "ready"
    /\ cpc[c] = "idle"
    /\ ndl < NumDownloads
    /\ ndl' = ndl + 1
    /\ cdl' = [cdl EXCEPT ![c] = ndl + 1]
    /\ dpc' = [dpc EXCEPT ![ndl + 1] = "init"]
    /\ block_on_error' = [block_on_error EXCEPT ![ndl + 1] = boe]
    /\ cpc' = [cpc EXCEPT ![c] = "acquire"]
    /\ fullAtCall' = [fullAtCall EXCEPT ![c] = (length = capacity)]
    /\ relAtCall' = [relAtCall EXCEPT ![c] = released]
    /\ clean' = [w \in DOMAIN clean |->
                    IF wpc[w] = "idle" THEN clean[w] ELSE FALSE]
    /\ UNCHANGED <<length, available_s, downloads_s, wpc, wcnt, outcome,
                   complete, hooks, released, busyAtCall,
                   qpc, capacity, queue_lock, spc, sexc, sadded, nraised>>

\* Variant of AddCallRaises in which the slot is acquired before the
\* downloader is constructed.
AddCallRaisesAfterAcquire(c) ==
    /\ qpc = "ready"
    /\ cpc[c] = "idle"
    /\ nraised < MaxRaised
    /\ available_s > 0
    /\ available_s' = available_s - 1
    /\ nraised' = nraised + 1
    /\ UNCHANGED <<length, downloads_s, cpc, cdl, ndl, wpc, wcnt, dpc, outcome,
                   block_on_error, complete, hooks, released, fullAtCall,
                   relAtCall, clean, busyAtCall,
                   qpc, capacity, queue_lock, spc, sexc, sadded>>

\* add, lines 74-75, with arguments the constructor rejects (Downloader.__init__
\* raises ValueError for unexpected keyword arguments, downloader.py:77-80):
\* the exception leaves add before any semaphore is touched; the Thread
\* object the constructor initialised is never started and never counted.
AddCallRaises(c) ==
    /\ qpc = "ready"
    /\ cpc[c] = "idle"
    /\ nraised < MaxRaised
    /\ nraised' = nraised + 1
    /\ UNCHANGED <<length, available_s, downloads_s, cpc, cdl, ndl, wpc, wcnt,
                   dpc, outcome, block_on_error, complete, hooks, released,
                   fullAtCall, relAtCall, clean, busyAtCall,
                   qpc, capacity, queue_lock, spc, sexc, sadded>>

\* Variant of AddAcquire that does not block: acquire(blocking=False).
AddAcquireNonBlocking(c) ==
    /\ cpc[c] = "acquire"
    /\ available_s' = IF available_s > 0 THEN available_s - 1 ELSE available_s
    /\ cpc' = [cpc EXCEPT ![c] = "release"]
    /\ UNCHANGED <<length, downloads_s, cdl, ndl, wpc, wcnt, dpc, outcome,
                   block_on_error, complete, hooks, released, fullAtCall,
                   relAtCall, clean, busyAtCall,
                   qpc, capacity, queue_lock, spc, sexc, sadded, nraised>>

\* add, line 78: self._available_s.acquire() blocks while the value is 0.
AddAcquire(c) ==
    /\ cpc[c] = "acquire"
    /\ available_s > 0
    /\ available_s' = available_s - 1
    /\ cpc' = [cpc EXCEPT ![c] = "release"]
    /\ UNCHANGED <<length, downloads_s, cdl, ndl, wpc, wcnt, dpc, outcome,
                   block_on_error, complete, hooks, released, fullAtCall,
                   relAtCall, clean, busyAtCall,
                   qpc, capacity, queue_lock, spc, sexc, sadded, nraised>>

\* add, line 79: self._downloads_s.release(); a BoundedSemaphore raises
\* ValueError when released above its initial value.
AddRelease(c) ==
    /\ cpc[c] = "release"
    /\ IF downloads_s >= capacity
       THEN /\ cpc' = [cpc EXCEPT ![c] = "valueerror"]
            /\ UNCHANGED downloads_s
       ELSE /\ downloads_s' = downloads_s + 1
            /\ cpc' = [cpc EXCEPT ![c] = "increment"]
    /\ UNCHANGED <<length, available_s, cdl, ndl, wpc, wcnt, dpc, outcome,
                   block_on_error, complete, hooks, released, fullAtCall,
                   relAtCall, clean, busyAtCall,
                   qpc, capacity, queue_lock, spc, sexc, sadded, nraised>>

\* Variant of AddIncrement without the lock: of two increments that overlap,
\* one is lost.
AddIncrementUnlocked(c) ==
    /\ cpc[c] = "increment"
    /\ queue_lock = 0
    /\ length' = IF \E c2 \in Callers \ {c} : cpc[c2] = "increment"
                 THEN length
                 ELSE length + 1
    /\ cpc' = [cpc EXCEPT ![c] = "begin"]
    /\ UNCHANGED <<available_s, downloads_s, cdl, ndl, wpc, wcnt, dpc, outcome,
                   block_on_error, complete, hooks, released, fullAtCall,
                   relAtCall, clean, busyAtCall,
                   qpc, capacity, queue_lock, spc, sexc, sadded, nraised>>

\* add, line 80: _increment_length, under _queue_lock (lines 106-108): the
\* caller waits while another thread holds the lock.
AddIncrement(c) ==
    /\ cpc[c] = "increment"
    /\ queue_lock = 0
    /\ length' = length + 1
    /\ cpc' = [cpc EXCEPT ![c] = "begin"]
    /\ UNCHANGED <<available_s, downloads_s, cdl, ndl, wpc, wcnt, dpc, outcome,
                   block_on_error, complete, hooks, released, fullAtCall,
                   relAtCall, clean, busyAtCall,
                   qpc, capacity, queue_lock, spc, sexc, sadded, nraised>>

\* add, line 82: dloader.begin() starts the downloader's thread; add returns.
AddBegin(c) ==
    /\ cpc[c] = "begin"
    /\ dpc' = [dpc EXCEPT ![cdl[c]] = "running"]
    /\ cpc' = [cpc EXCEPT ![c] = "idle"]
    /\ cdl' = [cdl EXCEPT ![c] = 0]
    /\ sadded' = [w \in DOMAIN sadded |->
                    IF spc[w] = "in" THEN sadded[w] \cup {cdl[c]} ELSE sadded[w]]
    /\ UNCHANGED <<length, available_s, downloads_s, ndl, wpc, wcnt, outcome,
                   block_on_error, complete, hooks, released, fullAtCall,
                   relAtCall, clean, busyAtCall,
                   qpc, capacity, queue_lock, spc, sexc, nraised>>

\* ---------------------------------------------- downloader.py: Downloader

\* Variant of Download that calls the hook from the else branch only (after
\* _pass_handler) instead of from the finally block.
DownloadHookOnSuccess(d, o) ==
    /\ dpc[d] = "running"
    /\ outcome' = [outcome EXCEPT ![d] = o]
    /\ complete' = [complete EXCEPT ![d] = (o = "ok")]
    /\ hooks' = [hooks EXCEPT ![d] = IF o = "ok" THEN hooks[d] + 1 ELSE hooks[d]]
    /\ dpc' = [dpc EXCEPT ![d] =
                 IF o = "ok" THEN "hook_dec"
                 ELSE IF block_on_error[d] THEN "raised" ELSE "done"]
    /\ UNCHANGED <<length, available_s, downloads_s, cpc, cdl, ndl, wpc, wcnt,
                   block_on_error, released, fullAtCall, relAtCall, clean,
                   busyAtCall,
                   qpc, capacity, queue_lock, spc, sexc, sadded, nraised>>

\* Variant of Download in which complete is still unset when the hook is
\* invoked.
DownloadCompleteUnset(d, o) ==
    /\ dpc[d] = "running"
    /\ IF complete[d]
       THEN /\ dpc' = [dpc EXCEPT ![d] = "runtimeerror"]
            /\ UNCHANGED <<outcome, complete, hooks>>
       ELSE /\ outcome' = [outcome EXCEPT ![d] = o]
            /\ hooks' = [hooks EXCEPT ![d] = hooks[d] + 1]
            /\ dpc' = [dpc EXCEPT ![d] = "hook_dec"]
            /\ UNCHANGED complete
    /\ UNCHANGED <<length, available_s, downloads_s, cpc, cdl, ndl, wpc, wcnt,
                   block_on_error, released, fullAtCall, relAtCall, clean,
                   busyAtCall,
                   qpc, capacity, queue_lock, spc, sexc, sadded, nraised>>

\* Variant of Download without the guard on self.complete.
DownloadUnguarded(d, o) ==
    /\ dpc[d] = "running"
    /\ outcome' = [outcome EXCEPT ![d] = o]
    /\ complete' = [complete EXCEPT ![d] = (o = "ok")]
    /\ hooks' = [hooks EXCEPT ![d] = hooks[d] + 1]
    /\ dpc' = [dpc EXCEPT ![d] = "hook_dec"]
    /\ UNCHANGED <<length, available_s, downloads_s, cpc, cdl, ndl, wpc, wcnt,
                   block_on_error, released, fullAtCall, relAtCall, clean,
                   busyAtCall,
                   qpc, capacity, queue_lock, spc, sexc, sadded, nraised>>

\* Downloader.download, lines 83-93, up to the call of the completion hook:
\* the guard on self.complete, then _download, then _error_handler (which
\* re-raises only with block_on_error) or _pass_handler (complete = True),
\* then, in the finally block, the hook.
Download(d, o) ==
    /\ dpc[d] = "running"
    /\ IF complete[d]
       THEN /\ dpc' = [dpc EXCEPT ![d] = "runtimeerror"]
            /\ UNCHANGED <<outcome, complete, hooks>>
       ELSE /\ outcome' = [outcome EXCEPT ![d] = o]
            /\ complete' = [complete EXCEPT ![d] = (o = "ok")]
            /\ hooks' = [hooks EXCEPT ![d] = hooks[d] + 1]
            /\ dpc' = [dpc EXCEPT ![d] = "hook_dec"]
    /\ UNCHANGED <<length, available_s, downloads_s, cpc, cdl, ndl, wpc, wcnt,
                   block_on_error, released, fullAtCall, relAtCall, clean,
                   busyAtCall,
                   qpc, capacity, queue_lock, spc, sexc, sadded, nraised>>

\* download() is called once more, directly, on a downloader whose thread
\* has ended (line 82 is entered again).
DownloadAgain(d) ==
    /\ Finished(d)
    /\ hooks[d] < MaxDownloadCalls
    /\ dpc' = [dpc EXCEPT ![d] = "running"]
    /\ UNCHANGED <<outcome, complete, hooks>>
    /\ UNCHANGED <<length, available_s, downloads_s, cpc, cdl, ndl, wpc, wcnt,
                   block_on_error, released, fullAtCall, relAtCall, clean,
                   busyAtCall,
                   qpc, capacity, queue_lock, spc, sexc, sadded, nraised>>

\* Variant of HookDecrement whose decrement is lost.
HookDecrementLost(d) ==
    /\ dpc[d] = "hook_dec"
    /\ queue_lock = 0
    /\ dpc' = [dpc EXCEPT ![d] = "hook_acquire"]
    /\ UNCHANGED <<length, available_s, downloads_s, cpc, cdl, ndl, wpc, wcnt,
                   outcome, block_on_error, complete, hooks, released,
                   fullAtCall, relAtCall, clean, busyAtCall,
                   qpc, capacity, queue_lock, spc, sexc, sadded, nraised>>

\* _complete_handler, line 88: _decrement_length, under _queue_lock (lines
\* 110-112): the downloader's thread waits while another thread holds the lock.
HookDecrement(d) ==
    /\ dpc[d] = "hook_dec"
    /\ queue_lock = 0
    /\ length' = length - 1
    /\ dpc' = [dpc EXCEPT ![d] = "hook_acquire"]
    /\ UNCHANGED <<available_s, downloads_s, cpc, cdl, ndl, wpc, wcnt, outcome,
                   block_on_error, complete, hooks, released, fullAtCall,
                   relAtCall, clean, busyAtCall,
                   qpc, capacity, queue_lock, spc, sexc, sadded, nraised>>

\* Variant of HookAcquire that leaves _downloads_s alone.
HookAcquireSkipped(d) ==
    /\ dpc[d] = "hook_acquire"
    /\ dpc' = [dpc EXCEPT ![d] = "hook_release"]
    /\ UNCHANGED <<length, available_s, downloads_s, cpc, cdl, ndl, wpc, wcnt,
                   outcome, block_on_error, complete, hooks, released,
                   fullAtCall, relAtCall, clean, busyAtCall,
                   qpc, capacity, queue_lock, spc, sexc, sadded, nraised>>

\* _complete_handler, line 89: self._downloads_s.acquire(blocking=False).
HookAcquire(d) ==
    /\ dpc[d] = "hook_acquire"
    /\ downloads_s' = IF downloads_s > 0 THEN downloads_s - 1 ELSE downloads_s
    /\ dpc' = [dpc EXCEPT ![d] = "hook_release"]
    /\ UNCHANGED <<length, available_s, cpc, cdl, ndl, wpc, wcnt, outcome,
                   block_on_error, complete, hooks, released, fullAtCall,
                   relAtCall, clean, busyAtCall,
                   qpc, capacity, queue_lock, spc, sexc, sadded, nraised>>

\* Variant of EndOfDownload in which every failure is absorbed.
EndOfDownloadAbsorbs(d) == "done"

\* How download() ends once the hook has returned: the exception that
\* _error_handler re-raised leaves the finally block, anything else returns.
EndOfDownload(d) ==
    IF outcome[d] # "ok" /\ block_on_error[d] THEN "raised" ELSE "done"

\* _complete_handler, line 92: self._available_s.release(), then the thread
\* ends.
HookRelease(d) ==
    /\ dpc[d] = "hook_release"
    /\ IF available_s >= capacity
       THEN /\ dpc' = [dpc EXCEPT ![d] = "valueerror"]
            /\ UNCHANGED <<available_s, released>>
       ELSE /\ available_s' = available_s + 1
            /\ released' = released + 1
            /\ dpc' = [dpc EXCEPT ![d] = EndOfDownload(d)]
    /\ UNCHANGED <<length, downloads_s, cpc, cdl, ndl, wpc, wcnt, outcome,
                   block_on_error, complete, hooks, fullAtCall, relAtCall,
                   clean, busyAtCall,
                   qpc, capacity, queue_lock, spc, sexc, sadded, nraised>>

\* ------------------------------------- queue.py: wait_until_finished

\* What no step of a thread entering or leaving wait_until_finished changes.
WaitFrame ==
    UNCHANGED <<capacity, length, available_s, downloads_s, cpc, cdl, ndl, dpc,
                outcome, block_on_error, complete, hooks, released,
                fullAtCall, relAtCall, sadded, nraised>>

\* wait_until_finished, lines 94-101: thread w enters the method, from
\* wherever it is called; with max_length 0 neither loop has an iteration.
EnterWait(w) ==
    /\ wpc' = [wpc EXCEPT ![w] = IF capacity = 0 THEN "returned" ELSE "acquiring"]
    /\ wcnt' = [wcnt EXCEPT ![w] = 0]
    /\ clean' = [clean EXCEPT ![w] = ~AddInProgress]
    /\ busyAtCall' = [busyAtCall EXCEPT ![w] = \E d \in Downloads : Busy(d)]
    /\ WaitFrame

\* wait_until_finished is called by the program.
WaitCall(w) ==
    /\ qpc = "ready"
    /\ wpc[w] \in {"idle", "returned"}
    /\ EnterWait(w)
    /\ UNCHANGED <<qpc, queue_lock, spc, sexc>>

\* Variant of WaitAcquire whose loop runs one time too few:
\* range(self.max_length - 1).
WaitAcquireShort(w) ==
    /\ wpc[w] = "acquiring"
    /\ available_s > 0
    /\ available_s' = available_s - 1
    /\ wcnt' = [wcnt EXCEPT ![w] = wcnt[w] + 1]
    /\ wpc' = [wpc EXCEPT ![w] =
                 IF wcnt[w] + 1 >= capacity - 1 THEN "releasing" ELSE "acquiring"]
    /\ UNCHANGED <<length, downloads_s, cpc, cdl, ndl, dpc, outcome,
                   block_on_error, complete, hooks, released, fullAtCall,
                   relAtCall, clean, busyAtCall,
                   qpc, capacity, queue_lock, spc, sexc, sadded, nraised>>

\* line 101: for X in range(self.max_length): self._available_s.acquire()
WaitAcquire(w) ==
    /\ wpc[w] = "acquiring"
    /\ available_s > 0
    /\ available_s' = available_s - 1
    /\ wcnt' = [wcnt EXCEPT ![w] = wcnt[w] + 1]
    /\ wpc' = [wpc EXCEPT ![w] =
                 IF wcnt[w] + 1 = capacity THEN "releasing" ELSE "acquiring"]
    /\ UNCHANGED <<length, downloads_s, cpc, cdl, ndl, dpc, outcome,
                   block_on_error, complete, hooks, released, fullAtCall,
                   relAtCall, clean, busyAtCall,
                   qpc, capacity, queue_lock, spc, sexc, sadded, nraised>>

\* Variant of WaitRelease whose loop runs one time too few, keeping a slot.
WaitReleaseShort(w) ==
    /\ wpc[w] = "releasing"
    /\ IF wcnt[w] <= 1
       THEN /\ wpc' = [wpc EXCEPT ![w] = "returned"]
            /\ UNCHANGED <<available_s, wcnt>>
       ELSE /\ available_s' = available_s + 1
            /\ wcnt' = [wcnt EXCEPT ![w] = wcnt[w] - 1]
            /\ wpc' = [wpc EXCEPT ![w] =
                         IF wcnt[w] - 1 = 1 THEN "returned" ELSE "releasing"]
    /\ UNCHANGED <<length, downloads_s, cpc, cdl, ndl, dpc, outcome,
                   block_on_error, complete, hooks, released, fullAtCall,
                   relAtCall, clean, busyAtCall,
                   qpc, capacity, queue_lock, spc, sexc, sadded, nraised>>

\* line 102: for X in range(self.max_length): self._available_s.release()
WaitRelease(w) ==
    /\ wpc[w] = "releasing"
    /\ IF available_s >= capacity
       THEN /\ wpc' = [wpc EXCEPT ![w] = "valueerror"]
            /\ UNCHANGED <<available_s, wcnt>>
       ELSE /\ available_s' = available_s + 1
            /\ wcnt' = [wcnt EXCEPT ![w] = wcnt[w] - 1]
            /\ wpc' = [wpc EXCEPT ![w] =
                         IF wcnt[w] - 1 = 0 THEN "returned" ELSE "releasing"]
    /\ UNCHANGED <<length, downloads_s, cpc, cdl, ndl, dpc, outcome,
                   block_on_error, complete, hooks, released, fullAtCall,
                   relAtCall, clean, busyAtCall,
                   qpc, capacity, queue_lock, spc, sexc, sadded, nraised>>

\* ------------------------------- queue.py: __enter__, __exit__, __del__

\* __enter__, lines 56-57: thread w enters a with block on the queue (each
\* thread once).
ScopeEnter(w) ==
    /\ qpc = "ready"
    /\ spc[w] = "out"
    /\ wpc[w] \in {"idle", "returned"}
    /\ spc' = [spc EXCEPT ![w] = "in"]
    /\ sexc' = [sexc EXCEPT ![w] = FALSE]
    /\ sadded' = [sadded EXCEPT ![w] = {}]
    /\ UNCHANGED <<qpc, capacity, queue_lock, length, available_s, downloads_s,
                   cpc, cdl, ndl, wpc, wcnt, dpc, outcome, block_on_error,
                   complete, hooks, released, fullAtCall, relAtCall, clean,
                   busyAtCall, nraised>>

\* Variant of ScopeExit whose __exit__ body is `pass`.
ScopeExitNoDrain(w, exc) ==
    /\ spc[w] = "in"
    /\ spc' = [spc EXCEPT ![w] = "exit"]
    /\ sexc' = [sexc EXCEPT ![w] = exc]
    /\ wpc' = [wpc EXCEPT ![w] = "returned"]
    /\ wcnt' = [wcnt EXCEPT ![w] = 0]
    /\ clean' = [clean EXCEPT ![w] = ~AddInProgress]
    /\ busyAtCall' = [busyAtCall EXCEPT ![w] = \E d \in Downloads : Busy(d)]
    /\ WaitFrame
    /\ UNCHANGED <<qpc, queue_lock>>

\* __exit__, lines 59-60: the with block of thread w is left, normally or by
\* an exception raised in it (its own, or one raised by add while the
\* downloader is constructed, line 75); __exit__ ignores its arguments and
\* calls wait_until_finished. The scope has closed when that call returns.
ScopeExit(w, exc) ==
    /\ spc[w] = "in"
    /\ spc' = [spc EXCEPT ![w] = "exit"]
    /\ sexc' = [sexc EXCEPT ![w] = exc]
    /\ EnterWait(w)
    /\ UNCHANGED <<qpc, queue_lock>>

\* __del__, lines 49-54: run by thread w when no thread is inside a method
\* of the queue. The lock is taken and length is read under it; when it is
\* positive wait_until_finished is called with the lock held.
DelCall(w) ==
    /\ qpc = "ready"
    /\ ~AddInProgress
    /\ ~WaitInProgress
    /\ wpc[w] \in {"idle", "returned"}
    /\ queue_lock = 0
    /\ queue_lock' = w
    /\ qpc' = "finalizing"
    /\ IF length > 0
       THEN EnterWait(w)
       ELSE /\ wpc' = [wpc EXCEPT ![w] = "returned"]
            /\ UNCHANGED <<wcnt, clean, busyAtCall>>
            /\ WaitFrame
    /\ UNCHANGED <<spc, sexc>>

\* __del__, line 50: the with statement is left and the lock released, once
\* wait_until_finished has returned or was not called.
DelReturn(w) ==
    /\ qpc = "finalizing"
    /\ queue_lock = w
    /\ wpc[w] = "returned"
    /\ queue_lock' = 0
    /\ qpc' = "finalized"
    /\ UNCHANGED <<capacity, length, available_s, downloads_s, cpc, cdl, ndl,
                   wpc, wcnt, spc, dpc, outcome, block_on_error, complete,
                   hooks, released, fullAtCall, relAtCall, clean, busyAtCall,
                   sexc, sadded, nraised>>

\* ------------------------------------------------ queue.py: __init__

\* The lengths a DownloadQueue is constructed with.
LengthArgs == -1..max_length

\* Before DownloadQueue(length) is evaluated: no object yet.
SemNew ==
    /\ qpc = "new"
    /\ capacity \in LengthArgs
    /\ queue_lock = 0
    /\ spc = [w \in Waiters |-> "out"]
    /\ sexc = [w \in Waiters |-> FALSE]
    /\ sadded = [w \in Waiters |-> {}]
    /\ nraised = 0
    /\ length = 0
    /\ available_s = 0
    /\ downloads_s = 0
    /\ cpc = [c \in Callers |-> "idle"]
    /\ cdl = [c \in Callers |-> 0]
    /\ ndl = 0
    /\ wpc = [w \in Waiters |-> "idle"]
    /\ wcnt = [w \in Waiters |-> 0]
    /\ dpc = [d \in Downloads |-> "new"]
    /\ outcome = [d \in Downloads |-> "none"]
    /\ block_on_error = [d \in Downloads |-> FALSE]
    /\ complete = [d \in Downloads |-> FALSE]
    /\ hooks = [d \in Downloads |-> 0]
    /\ released = 0
    /\ fullAtCall = [c \in Callers |-> FALSE]
    /\ relAtCall = [c \in Callers |-> 0]
    /\ clean = [w \in Waiters |-> FALSE]
    /\ busyAtCall = [w \in Waiters |-> FALSE]

\* __init__, lines 33-41: BoundedSemaphore(length) raises ValueError for a
\* negative length and accepts 0; _downloads_s is depleted by the loop of
\* line 39. Nothing else looks at length.
Construct ==
    /\ qpc = "new"
    /\ IF capacity < 0
       THEN /\ qpc' = "valueerror"
            /\ UNCHANGED <<length, available_s, downloads_s>>
       ELSE /\ qpc' = "ready"
            /\ length' = 0
            /\ available_s' = capacity
            /\ downloads_s' = 0
    /\ UNCHANGED <<capacity, queue_lock, cpc, cdl, ndl, wpc, wcnt, spc, dpc,
                   outcome, block_on_error, complete, hooks, released,
                   fullAtCall, relAtCall, clean, busyAtCall, sexc, sadded,
                   nraised>>

\* --------------------------------------- download_queue.py: DownloadQueue

\* DownloadQueue.__init__ and OverflowQueue.__init__: both lists empty.
OverflowInit ==
    /\ queue_contents = <<>>
    /\ overflow_queue = <<>>
    /\ apc = "idle"
    /\ adt = 0
    /\ nthreads = 0
    /\ tpc = [t \in Threads |-> "new"]
    /\ tptr = [t \in Threads |-> None]
    /\ tpop = [t \in Threads |-> 0]
    /\ texc = [t \in Threads |-> "none"]
    /\ fpc = "idle"
    /\ fclean = FALSE
    /\ enqueued = <<>>
    /\ nfinished = 0
    /\ sawHeld = [t \in Threads |-> FALSE]
    /\ dLive = [t \in Threads |-> 0]
    /\ dHeld = [t \in Threads |-> 0]

\* list.remove(x): the list without the first x.
RECURSIVE ListRemove(_, _)
ListRemove(l, x) ==
    IF l = <<>> THEN <<>>
    ELSE IF Head(l) = x THEN Tail(l)
    ELSE <<Head(l)>> \o ListRemove(Tail(l), x)

\* list.pop(i) for an index 0 <= i < len: the list without its element i.
ListWithout(l, i) ==
    [k \in 1..(Len(l) - 1) |-> IF k <= i THEN l[k] ELSE l[k + 1]]

\* OverflowQueue.is_empty / empty
IsEmpty == Len(overflow_queue) = 0

\* DownloadQueue._is_ready / ready: len(self._queue_contents) != len(self)
IsReady == Len(queue_contents) # queue_span

\* add, line 72: the DownloadThread is created.
GateAdd ==
    /\ apc = "idle"
    /\ nthreads < NumRequests
    /\ nthreads' = nthreads + 1
    /\ adt' = nthreads + 1
    /\ tpc' = [tpc EXCEPT ![nthreads + 1] = "created"]
    /\ apc' = "check"
    /\ fclean' = FALSE
    /\ UNCHANGED <<queue_contents, overflow_queue, tptr, tpop, texc, enqueued,
                   nfinished, sawHeld, dLive, dHeld, fpc>>

\* Variant of GateAddOrQueue that waits until the queue is ready instead of
\* handing the thread to the overflow queue.
GateAddWhenReady ==
    /\ apc = "check"
    /\ IsReady
    /\ apc' = "append"
    /\ UNCHANGED <<queue_contents, overflow_queue, adt, nthreads, tpc, tptr,
                   tpop, texc, enqueued, nfinished, sawHeld, dLive, dHeld,
                   fpc, fclean>>

\* _add_or_queue, lines 77-78: the test of self.ready.
GateAddOrQueue ==
    /\ apc = "check"
    /\ apc' = IF IsReady THEN "append" ELSE "enqueue"
    /\ UNCHANGED <<queue_contents, overflow_queue, adt, nthreads, tpc, tptr,
                   tpop, texc, enqueued, nfinished, sawHeld, dLive, dHeld,
                   fpc, fclean>>

\* _add, line 82: self._queue_contents.append(dt)
GateAppend ==
    /\ apc = "append"
    /\ queue_contents' = Append(queue_contents, adt)
    /\ apc' = "start"
    /\ UNCHANGED <<overflow_queue, adt, nthreads, tpc, tptr, tpop, texc,
                   enqueued, nfinished, sawHeld, dLive, dHeld,
                   fpc, fclean>>

\* _add, line 83: dt.start(); add returns.
GateStart ==
    /\ apc = "start"
    /\ tpc' = [tpc EXCEPT ![adt] = "running"]
    /\ apc' = "idle"
    /\ adt' = 0
    /\ UNCHANGED <<queue_contents, overflow_queue, nthreads, tptr, tpop, texc,
                   enqueued, nfinished, sawHeld, dLive, dHeld,
                   fpc, fclean>>

\* _add_or_queue, line 78: self._overflow_queue.enqueue(dt); add returns.
GateEnqueue ==
    /\ apc = "enqueue"
    /\ overflow_queue' = Append(overflow_queue, adt)
    /\ enqueued' = Append(enqueued, adt)
    /\ tpc' = [tpc EXCEPT ![adt] = "held"]
    /\ apc' = "idle"
    /\ adt' = 0
    /\ UNCHANGED <<queue_contents, nthreads, tptr, tpop, texc, nfinished,
                   sawHeld, dLive, dHeld,
                   fpc, fclean>>

\* DownloadThread._target_method, lines 16-17: the download returns, whether
\* the transfer succeeded or failed (GenericDownload.download in download.py
\* keeps the exception in the instance).
ThreadDownload(t) ==
    /\ tpc[t] = "running"
    /\ tpc' = [tpc EXCEPT ![t] = "remove"]
    /\ nfinished' = nfinished + 1
    /\ UNCHANGED <<queue_contents, overflow_queue, apc, adt, nthreads, tptr,
                   tpop, texc, enqueued, sawHeld, dLive, dHeld,
                   fpc, fclean>>

\* remove, line 92: self._queue_contents.remove(dt)
Remove(t) ==
    /\ tpc[t] = "remove"
    /\ queue_contents' = ListRemove(queue_contents, t)
    /\ dLive' = [dLive EXCEPT ![t] = Len(queue_contents') - Len(queue_contents)]
    /\ tpc' = [tpc EXCEPT ![t] = "remove_check"]
    /\ UNCHANGED <<overflow_queue, apc, adt, nthreads, tptr, tpop, texc,
                   enqueued, nfinished, sawHeld, dHeld,
                   fpc, fclean>>

\* remove, line 94: if not(self._overflow_queue.empty)
RemoveCheck(t) ==
    /\ tpc[t] = "remove_check"
    /\ sawHeld' = [sawHeld EXCEPT ![t] = ~IsEmpty]
    /\ tpc' = [tpc EXCEPT ![t] = IF IsEmpty THEN "done" ELSE "dequeue"]
    /\ UNCHANGED <<queue_contents, overflow_queue, apc, adt, nthreads, tptr,
                   tpop, texc, enqueued, nfinished, dLive, dHeld,
                   fpc, fclean>>

\* dequeue, line 36: self._check_raise_empty()
DequeueCheck(t) ==
    /\ tpc[t] = "dequeue"
    /\ IF IsEmpty
       THEN /\ tpc' = [tpc EXCEPT ![t] = "raised"]
            /\ texc' = [texc EXCEPT ![t] = "OverflowQueueIsEmptyException"]
       ELSE /\ tpc' = [tpc EXCEPT ![t] = "pointer"]
            /\ UNCHANGED texc
    /\ UNCHANGED <<queue_contents, overflow_queue, apc, adt, nthreads, tptr,
                   tpop, enqueued, nfinished, sawHeld, dLive, dHeld,
                   fpc, fclean>>

\* queue_pointer, line 54, the test: None if self.empty else ...
PointerEmpty(t) ==
    /\ tpc[t] = "pointer"
    /\ IF IsEmpty
       THEN /\ tptr' = [tptr EXCEPT ![t] = None]
            /\ tpc' = [tpc EXCEPT ![t] = "pop"]
       ELSE /\ tpc' = [tpc EXCEPT ![t] = "pointer_len"]
            /\ UNCHANGED tptr
    /\ UNCHANGED <<queue_contents, overflow_queue, apc, adt, nthreads, tpop,
                   texc, enqueued, nfinished, sawHeld, dLive, dHeld,
                   fpc, fclean>>

\* queue_pointer, line 54, the value: len(self) - 1
PointerLen(t) ==
    /\ tpc[t] = "pointer_len"
    /\ tptr' = [tptr EXCEPT ![t] = <<Len(overflow_queue) - 1>>]
    /\ tpc' = [tpc EXCEPT ![t] = "pop"]
    /\ UNCHANGED <<queue_contents, overflow_queue, apc, adt, nthreads, tpop,
                   texc, enqueued, nfinished, sawHeld, dLive, dHeld,
                   fpc, fclean>>

\* dequeue, line 37: self._queue.pop(index). list.pop raises TypeError for
\* None and IndexError for an index outside the list; -1 is the last element.
DequeuePop(t) ==
    /\ tpc[t] = "pop"
    /\ LET n == Len(overflow_queue)
           p == IF tptr[t] = None THEN 0 ELSE tptr[t][1]
           i == IF p < 0 THEN n + p ELSE p
       IN IF tptr[t] = None
          THEN /\ tpc' = [tpc EXCEPT ![t] = "raised"]
               /\ texc' = [texc EXCEPT ![t] = "TypeError"]
               /\ UNCHANGED <<overflow_queue, tpop, dHeld>>
          ELSE IF i < 0 \/ i >= n
          THEN /\ tpc' = [tpc EXCEPT ![t] = "raised"]
               /\ texc' = [texc EXCEPT ![t] = "IndexError"]
               /\ UNCHANGED <<overflow_queue, tpop, dHeld>>
          ELSE /\ tpop' = [tpop EXCEPT ![t] = overflow_queue[i + 1]]
               /\ overflow_queue' = ListWithout(overflow_queue, i)
               /\ dHeld' = [dHeld EXCEPT ![t] = Len(overflow_queue') - n]
               /\ tpc' = [tpc EXCEPT ![t] = "promote"]
               /\ UNCHANGED texc
    /\ UNCHANGED <<queue_contents, apc, adt, nthreads, tptr, enqueued,
                   nfinished, sawHeld, dLive,
                   fpc, fclean>>

\* remove, line 95 -> _add, line 82: self._queue_contents.append(dt)
PromoteAppend(t) ==
    /\ tpc[t] = "promote"
    /\ queue_contents' = Append(queue_contents, tpop[t])
    /\ dLive' = [dLive EXCEPT ![t] =
                   dLive[t] + Len(queue_contents') - Len(queue_contents)]
    /\ tpc' = [tpc EXCEPT ![t] = "promote_start"]
    /\ UNCHANGED <<overflow_queue, apc, adt, nthreads, tptr, tpop, texc,
                   enqueued, nfinished, sawHeld, dHeld,
                   fpc, fclean>>

\* remove, line 95 -> _add, line 83: dt.start(); remove returns and the
\* removing thread ends.
PromoteStart(t) ==
    /\ tpc[t] = "promote_start"
    /\ tpc' = [tpc EXCEPT ![t] = "done", ![tpop[t]] = "running"]
    /\ UNCHANGED <<queue_contents, overflow_queue, apc, adt, nthreads, tptr,
                   tpop, texc, enqueued, nfinished, sawHeld, dLive, dHeld,
                   fpc, fclean>>

\* wait_to_finish, line 100: the caller enters the loop.
WaitToFinish ==
    /\ fpc \in {"idle", "returned"}
    /\ fpc' = "contents"
    /\ fclean' = (apc = "idle")
    /\ UNCHANGED <<queue_contents, overflow_queue, apc, adt, nthreads, tpc,
                   tptr, tpop, texc, enqueued, nfinished, sawHeld, dLive, dHeld>>

\* wait_to_finish, line 101 -> _all_complete, line 86, the left operand:
\* len(self._queue_contents) == 0; when it is false the loop tests again.
AllCompleteContents ==
    /\ fpc = "contents"
    /\ fpc' = IF Len(queue_contents) = 0 THEN "overflow" ELSE "contents"
    /\ UNCHANGED <<queue_contents, overflow_queue, apc, adt, nthreads, tpc,
                   tptr, tpop, texc, enqueued, nfinished, sawHeld, dLive, dHeld,
                   fclean>>

\* _all_complete, line 86, the right operand: len(self._overflow_queue) == 0;
\* when it is true wait_to_finish returns, otherwise the loop tests again.
AllCompleteOverflow ==
    /\ fpc = "overflow"
    /\ fpc' = IF Len(overflow_queue) = 0 THEN "returned" ELSE "contents"
    /\ UNCHANGED <<queue_contents, overflow_queue, apc, adt, nthreads, tpc,
                   tptr, tpop, texc, enqueued, nfinished, sawHeld, dLive, dHeld,
                   fclean>>

\* ------------------------------------------ decorators.py: repeat_on_error

Max(a, b) == IF a >= b THEN a ELSE b

\* extract_attr, line 31 (the identifier is always given by downloader.py)
extract_attr(has, value, default) == IF has THEN value ELSE default

\* A downloader with the given optional attributes, before _download is called.
RetryInit(counts, intervals) ==
    /\ has_attempt_count \in BOOLEAN
    /\ self_attempt_count \in (IF has_attempt_count THEN counts ELSE {0})
    /\ has_attempt_interval \in BOOLEAN
    /\ self_attempt_interval \in (IF has_attempt_interval THEN intervals ELSE {0})
    /\ rpc = "idle"
    /\ attempt_count = 0
    /\ attempt_delay = 0
    /\ attempt = 0
    /\ result = "noresult"
    /\ logged = 0
    /\ context = <<>>
    /\ invocations = 0
    /\ calls = 0
    /\ sleeps = 0
    /\ waited = 0
    /\ history = <<>>

\* Variant of Wrapped without the two max(): the attributes are used as given.
WrappedUnclamped ==
    /\ rpc = "idle"
    /\ attempt_count' =
         extract_attr(has_attempt_count, self_attempt_count, DefaultAttemptCount)
    /\ attempt_delay' =
         extract_attr(has_attempt_interval, self_attempt_interval,
                      DefaultAttemptInterval)
    /\ attempt' = attempt_count' - 1
    /\ rpc' = "invoke"
    /\ invocations' = invocations + 1
    /\ UNCHANGED <<has_attempt_count, self_attempt_count, has_attempt_interval,
                   self_attempt_interval, result, logged, context, calls, sleeps,
                   waited, history>>

\* wrapped, lines 39-40 and 69: the parameters are resolved and clamped, then
\* recursively_invoke_func(attempt_count-1) is called.
Wrapped ==
    /\ rpc = "idle"
    /\ attempt_count' =
         Max(extract_attr(has_attempt_count, self_attempt_count, DefaultAttemptCount), 1)
    /\ attempt_delay' =
         Max(extract_attr(has_attempt_interval, self_attempt_interval,
                          DefaultAttemptInterval), 0)
    /\ attempt' = attempt_count' - 1
    /\ rpc' = "invoke"
    /\ invocations' = invocations + 1
    /\ UNCHANGED <<has_attempt_count, self_attempt_count, has_attempt_interval,
                   self_attempt_interval, result, logged, context, calls, sleeps,
                   waited, history>>

\* Variant of RecursivelyInvoke that gives up only when attempt < 0.
RecursivelyInvokeOffByOne(o, v) ==
    /\ rpc = "invoke"
    /\ calls' = calls + 1
    /\ history' = Append(history, [o |-> o, v |-> IF o = "ok" THEN v ELSE "noresult"])
    /\ context' = IF o = "ok" THEN context ELSE Append(context, calls + 1)
    /\ CASE o = "ok" -> /\ result' = v
                        /\ rpc' = "returned"
                        /\ UNCHANGED logged
         [] o = "interrupt" -> /\ rpc' = "interrupted"
                               /\ UNCHANGED <<result, logged>>
         [] o = "fail" -> IF attempt < 0
                          THEN /\ logged' = logged + 1
                               /\ rpc' = "raised"
                               /\ UNCHANGED result
                          ELSE /\ rpc' = "sleep"
                               /\ UNCHANGED <<result, logged>>
    /\ UNCHANGED <<has_attempt_count, self_attempt_count, has_attempt_interval,
                   self_attempt_interval, attempt_count, attempt_delay, attempt,
                   invocations, sleeps, waited>>

\* Variant of RecursivelyInvoke without the return on line 67: the value of a
\* nested call is dropped.
RecursivelyInvokeDropsValue(o, v) ==
    /\ rpc = "invoke"
    /\ calls' = calls + 1
    /\ history' = Append(history, [o |-> o, v |-> IF o = "ok" THEN v ELSE "noresult"])
    /\ context' = IF o = "ok" THEN context ELSE Append(context, calls + 1)
    /\ CASE o = "ok" -> /\ result' = IF attempt = attempt_count - 1 THEN v ELSE "None"
                        /\ rpc' = "returned"
                        /\ UNCHANGED logged
         [] o = "interrupt" -> /\ rpc' = "interrupted"
                               /\ UNCHANGED <<result, logged>>
         [] o = "fail" -> IF attempt <= 0
                          THEN /\ logged' = logged + 1
                               /\ rpc' = "raised"
                               /\ UNCHANGED result
                          ELSE /\ rpc' = "sleep"
                               /\ UNCHANGED <<result, logged>>
    /\ UNCHANGED <<has_attempt_count, self_attempt_count, has_attempt_interval,
                   self_attempt_interval, attempt_count, attempt_delay, attempt,
                   invocations, sleeps, waited>>

\* Variant of RecursivelyInvoke without line 57: KeyboardInterrupt falls into
\* the bare except and is retried like any other exception.
RecursivelyInvokeCatchesInterrupt(o, v) ==
    /\ rpc = "invoke"
    /\ calls' = calls + 1
    /\ history' = Append(history, [o |-> o, v |-> IF o = "ok" THEN v ELSE "noresult"])
    /\ context' = IF o = "ok" THEN context ELSE Append(context, calls + 1)
    /\ CASE o = "ok" -> /\ result' = v
                        /\ rpc' = "returned"
                        /\ UNCHANGED logged
         [] o \in {"fail", "interrupt"} ->
                          IF attempt <= 0
                          THEN /\ logged' = logged + 1
                               /\ rpc' = "raised"
                               /\ UNCHANGED result
                          ELSE /\ rpc' = "sleep"
                               /\ UNCHANGED <<result, logged>>
    /\ UNCHANGED <<has_attempt_count, self_attempt_count, has_attempt_interval,
                   self_attempt_interval, attempt_count, attempt_delay, attempt,
                   invocations, sleeps, waited>>

\* Variant of RecursivelyInvoke that retries after the except block has been
\* left (a loop instead of the nested call on line 67): the new exception is
\* not raised while the previous one is handled and has no __context__.
RecursivelyInvokeOutsideHandler(o, v) ==
    /\ rpc = "invoke"
    /\ calls' = calls + 1
    /\ history' = Append(history, [o |-> o, v |-> IF o = "ok" THEN v ELSE "noresult"])
    /\ context' = IF o = "ok" THEN context ELSE <<calls + 1>>
    /\ CASE o = "ok" -> /\ result' = v
                        /\ rpc' = "returned"
                        /\ UNCHANGED logged
         [] o = "interrupt" -> /\ rpc' = "interrupted"
                               /\ UNCHANGED <<result, logged>>
         [] o = "fail" -> IF attempt <= 0
                          THEN /\ logged' = logged + 1
                               /\ rpc' = "raised"
                               /\ UNCHANGED result
                          ELSE /\ rpc' = "sleep"
                               /\ UNCHANGED <<result, logged>>
    /\ UNCHANGED <<has_attempt_count, self_attempt_count, has_attempt_interval,
                   self_attempt_interval, attempt_count, attempt_delay, attempt,
                   invocations, sleeps, waited>>

\* recursively_invoke_func, lines 55-65: one invocation of the function. Its
\* value is returned (through every nested call); KeyboardInterrupt is
\* re-raised; any other exception is logged and re-raised when attempt <= 0,
\* and otherwise leads to the sleep. The function raises a new exception
\* object each time, and the nested call of line 67 runs inside the except
\* block of the call before it, so Python sets the new exception's
\* __context__ to the exception of the attempt before.
RecursivelyInvoke(o, v) ==
    /\ rpc = "invoke"
    /\ calls' = calls + 1
    /\ history' = Append(history, [o |-> o, v |-> IF o = "ok" THEN v ELSE "noresult"])
    /\ context' = IF o = "ok" THEN context ELSE Append(context, calls + 1)
    /\ CASE o = "ok" -> /\ result' = v
                        /\ rpc' = "returned"
                        /\ UNCHANGED logged
         [] o = "interrupt" -> /\ rpc' = "interrupted"
                               /\ UNCHANGED <<result, logged>>
         [] o = "fail" -> IF attempt <= 0
                          THEN /\ logged' = logged + 1
                               /\ rpc' = "raised"
                               /\ UNCHANGED result
                          ELSE /\ rpc' = "sleep"
                               /\ UNCHANGED <<result, logged>>
    /\ UNCHANGED <<has_attempt_count, self_attempt_count, has_attempt_interval,
                   self_attempt_interval, attempt_count, attempt_delay, attempt,
                   invocations, sleeps, waited>>

\* recursively_invoke_func, lines 66-67: time.sleep(attempt_delay), then the
\* nested call recursively_invoke_func(attempt-1).
SleepAndRetry ==
    /\ rpc = "sleep"
    /\ sleeps' = sleeps + 1
    /\ waited' = waited + attempt_delay
    /\ attempt' = attempt - 1
    /\ rpc' = "invoke"
    /\ UNCHANGED <<has_attempt_count, self_attempt_count, has_attempt_interval,
                   self_attempt_interval, attempt_count, attempt_delay, result,
                   logged, context, invocations, calls, history>>

\* The downloader's optional attributes are plain members (downloader.py,
\* lines 173-174): once a call of _download has ended they may be set anew or
\* deleted, and _download called again. What was observed of the call before
\* is forgotten; the locals of wrapped keep their last values until line 39.
CallAgain(hc, c, hi, i) ==
    /\ rpc \in {"returned", "raised", "interrupted"}
    /\ invocations < MaxInvocations
    /\ has_attempt_count' = hc
    /\ self_attempt_count' = (IF hc THEN c ELSE 0)
    /\ has_attempt_interval' = hi
    /\ self_attempt_interval' = (IF hi THEN i ELSE 0)
    /\ rpc' = "idle"
    /\ result' = "noresult"
    /\ logged' = 0
    /\ context' = <<>>
    /\ calls' = 0
    /\ sleeps' = 0
    /\ waited' = 0
    /\ history' = <<>>
    /\ UNCHANGED <<attempt_count, attempt_delay, attempt, invocations>>

\* ---------------------------------- generic_download.py: GenericDownload

\* GenericDownload.__init__, line 72, with try_upto_x_times given one of the
\* counts: the instance before download is called.
GenericInit(counts) ==
    /\ gd_pc = "idle"
    /\ status = "NotBegun"
    /\ try_count \in counts
    /\ X = 0
    /\ gd_exc = "none"
    /\ transfers = 0
    /\ gd_sleeps = 0
    /\ gd_invocations = 0
    /\ gd_history = <<>>

\* download is called (again, once the previous call has ended):
\* mark_status_as_failure.wrapped (lines 54-56) calls try_upto_x_times.wrapped,
\* whose loop starts at X = 0 (line 26).
GDCall ==
    /\ gd_pc \in {"idle", "returned", "raised"}
    /\ gd_invocations < MaxDownloads
    /\ gd_invocations' = gd_invocations + 1
    /\ X' = 0
    /\ gd_exc' = "none"
    /\ gd_pc' = "body"
    /\ UNCHANGED <<status, try_count, transfers, gd_sleeps, gd_history>>

\* try_upto_x_times line 28 -> delay_exception line 42 -> download, lines
\* 81-84: the body returns at once when status is Downloading; otherwise it
\* sets status to Downloading.
GDBegin ==
    /\ gd_pc = "body"
    /\ IF status = "Downloading"
       THEN /\ gd_pc' = "returned"
            /\ UNCHANGED status
       ELSE /\ status' = "Downloading"
            /\ gd_pc' = "transfer"
    /\ UNCHANGED <<try_count, X, gd_exc, transfers, gd_sleeps, gd_invocations,
                   gd_history>>

\* download, lines 86-91: the transfer, which ends well (status Complete,
\* download returns) or raises.
GDTransfer(o) ==
    /\ gd_pc = "transfer"
    /\ transfers' = transfers + 1
    /\ gd_history' = Append(gd_history, o)
    /\ IF o = "ok"
       THEN /\ status' = "Complete"
            /\ gd_pc' = "returned"
            /\ UNCHANGED gd_exc
       ELSE /\ gd_exc' = (IF o = "fail" THEN "Exception" ELSE "KeyboardInterrupt")
            /\ gd_pc' = "delay"
            /\ UNCHANGED status
    /\ UNCHANGED <<try_count, X, gd_sleeps, gd_invocations>>

\* delay_exception, lines 43-46: a KeyboardInterrupt is passed over and the
\* wrapper returns None; any other exception is raised again after the sleep.
GDDelay ==
    /\ gd_pc = "delay"
    /\ IF gd_exc = "KeyboardInterrupt"
       THEN /\ gd_pc' = "returned"
            /\ gd_exc' = "none"
            /\ UNCHANGED gd_sleeps
       ELSE /\ gd_sleeps' = gd_sleeps + 1
            /\ gd_pc' = "except"
            /\ UNCHANGED gd_exc
    /\ UNCHANGED <<status, try_count, X, transfers, gd_invocations, gd_history>>

\* try_upto_x_times, lines 29-31: on the last round the exception is raised
\* again and mark_status_as_failure sets status to Failed (lines 57-59);
\* otherwise the loop goes on with the next X.
GDExcept ==
    /\ gd_pc = "except"
    /\ IF X = try_count - 1
       THEN /\ status' = "Failed"
            /\ gd_pc' = "raised"
            /\ UNCHANGED X
       ELSE /\ X' = X + 1
            /\ gd_pc' = "body"
            /\ UNCHANGED status
    /\ UNCHANGED <<try_count, gd_exc, transfers, gd_sleeps, gd_invocations,
                   gd_history>>

\* ----------------------------------------------------- the specifications

\* The parts a specification leaves alone stay as constructed.
OverflowIdle == OverflowInit
RetryIdle == RetryInit({0}, {0}) /\ ~has_attempt_count /\ ~has_attempt_interval
GenericIdle == GenericInit({1})

Init == SemInit /\ OverflowIdle /\ RetryIdle /\ GenericIdle

Next ==
    \/ \E c \in Callers, boe \in BOOLEAN :
         AddCall(c, boe) /\ UNCHANGED <<ovfvars, retryvars, gdvars>>
    \/ \E c \in Callers : AddAcquire(c) /\ UNCHANGED <<ovfvars, retryvars, gdvars>>
    \/ \E c \in Callers : AddRelease(c) /\ UNCHANGED <<ovfvars, retryvars, gdvars>>
    \/ \E c \in Callers : AddIncrement(c) /\ UNCHANGED <<ovfvars, retryvars, gdvars>>
    \/ \E c \in Callers : AddBegin(c) /\ UNCHANGED <<ovfvars, retryvars, gdvars>>
    \/ \E d \in Downloads, o \in Outcomes :
         Download(d, o) /\ UNCHANGED <<ovfvars, retryvars, gdvars>>
    \/ \E d \in Downloads : HookDecrement(d) /\ UNCHANGED <<ovfvars, retryvars, gdvars>>
    \/ \E d \in Downloads : HookAcquire(d) /\ UNCHANGED <<ovfvars, retryvars, gdvars>>
    \/ \E d \in Downloads : HookRelease(d) /\ UNCHANGED <<ovfvars, retryvars, gdvars>>
    \/ \E w \in Waiters : WaitCall(w) /\ UNCHANGED <<ovfvars, retryvars, gdvars>>
    \/ \E w \in Waiters : WaitAcquire(w) /\ UNCHANGED <<ovfvars, retryvars, gdvars>>
    \/ \E w \in Waiters : WaitRelease(w) /\ UNCHANGED <<ovfvars, retryvars, gdvars>>

\* queue.py and downloader.py
Spec == Init /\ [][Next]_vars

\* queue.py and downloader.py, add being called with arguments the
\* downloader's constructor rejects as well as with valid ones
ArgsNext ==
    \/ \E c \in Callers, boe \in BOOLEAN :
         AddCall(c, boe) /\ UNCHANGED <<ovfvars, retryvars, gdvars>>
    \/ \E c \in Callers : AddAcquire(c) /\ UNCHANGED <<ovfvars, retryvars, gdvars>>
    \/ \E c \in Callers : AddRelease(c) /\ UNCHANGED <<ovfvars, retryvars, gdvars>>
    \/ \E c \in Callers : AddIncrement(c) /\ UNCHANGED <<ovfvars, retryvars, gdvars>>
    \/ \E c \in Callers : AddBegin(c) /\ UNCHANGED <<ovfvars, retryvars, gdvars>>
    \/ \E d \in Downloads, o \in Outcomes :
         Download(d, o) /\ UNCHANGED <<ovfvars, retryvars, gdvars>>
    \/ \E d \in Downloads : HookDecrement(d) /\ UNCHANGED <<ovfvars, retryvars, gdvars>>
    \/ \E d \in Downloads : HookAcquire(d) /\ UNCHANGED <<ovfvars, retryvars, gdvars>>
    \/ \E d \in Downloads : HookRelease(d) /\ UNCHANGED <<ovfvars, retryvars, gdvars>>
    \/ \E w \in Waiters : WaitCall(w) /\ UNCHANGED <<ovfvars, retryvars, gdvars>>
    \/ \E w \in Waiters : WaitAcquire(w) /\ UNCHANGED <<ovfvars, retryvars, gdvars>>
    \/ \E w \in Waiters : WaitRelease(w) /\ UNCHANGED <<ovfvars, retryvars, gdvars>>
    \/ \E c \in Callers : AddCallRaises(c) /\ UNCHANGED <<ovfvars, retryvars, gdvars>>

ArgsSpec == Init /\ [][ArgsNext]_vars

OverflowNext ==
    \/ GateAdd /\ UNCHANGED <<semvars, retryvars, gdvars>>
    \/ GateAddOrQueue /\ UNCHANGED <<semvars, retryvars, gdvars>>
    \/ GateAppend /\ UNCHANGED <<semvars, retryvars, gdvars>>
    \/ GateStart /\ UNCHANGED <<semvars, retryvars, gdvars>>
    \/ GateEnqueue /\ UNCHANGED <<semvars, retryvars, gdvars>>
    \/ \E t \in Threads : ThreadDownload(t) /\ UNCHANGED <<semvars, retryvars, gdvars>>
    \/ \E t \in Threads : Remove(t) /\ UNCHANGED <<semvars, retryvars, gdvars>>
    \/ \E t \in Threads : RemoveCheck(t) /\ UNCHANGED <<semvars, retryvars, gdvars>>
    \/ \E t \in Threads : DequeueCheck(t) /\ UNCHANGED <<semvars, retryvars, gdvars>>
    \/ \E t \in Threads : PointerEmpty(t) /\ UNCHANGED <<semvars, retryvars, gdvars>>
    \/ \E t \in Threads : PointerLen(t) /\ UNCHANGED <<semvars, retryvars, gdvars>>
    \/ \E t \in Threads : DequeuePop(t) /\ UNCHANGED <<semvars, retryvars, gdvars>>
    \/ \E t \in Threads : PromoteAppend(t) /\ UNCHANGED <<semvars, retryvars, gdvars>>
    \/ \E t \in Threads : PromoteStart(t) /\ UNCHANGED <<semvars, retryvars, gdvars>>
    \/ WaitToFinish /\ UNCHANGED <<semvars, retryvars, gdvars>>
    \/ AllCompleteContents /\ UNCHANGED <<semvars, retryvars, gdvars>>
    \/ AllCompleteOverflow /\ UNCHANGED <<semvars, retryvars, gdvars>>

\* download_queue.py
OverflowSpecInit == SemInit /\ OverflowInit /\ RetryIdle /\ GenericIdle
OverflowSpec == OverflowSpecInit /\ [][OverflowNext]_vars

RetryNext ==
    \/ Wrapped /\ UNCHANGED <<semvars, ovfvars, gdvars>>
    \/ \E o \in Outcomes, v \in Values :
         RecursivelyInvoke(o, v) /\ UNCHANGED <<semvars, ovfvars, gdvars>>
    \/ SleepAndRetry /\ UNCHANGED <<semvars, ovfvars, gdvars>>
    \/ \E hc, hi \in BOOLEAN, c \in AttemptCounts, i \in AttemptIntervals :
         CallAgain(hc, c, hi, i) /\ UNCHANGED <<semvars, ovfvars, gdvars>>

\* decorators.py, for every choice of the downloader's optional attributes
RetrySpecInit ==
    /\ SemInit
    /\ OverflowIdle
    /\ RetryInit(AttemptCounts, AttemptIntervals)
    /\ GenericIdle
RetrySpec == RetrySpecInit /\ [][RetryNext]_vars

GenericNext ==
    \/ GDCall /\ UNCHANGED <<semvars, ovfvars, retryvars>>
    \/ GDBegin /\ UNCHANGED <<semvars, ovfvars, retryvars>>
    \/ \E o \in Outcomes : GDTransfer(o) /\ UNCHANGED <<semvars, ovfvars, retryvars>>
    \/ GDDelay /\ UNCHANGED <<semvars, ovfvars, retryvars>>
    \/ GDExcept /\ UNCHANGED <<semvars, ovfvars, retryvars>>

\* generic_download.py, for every value of MINIMUM_ATTEMPT_COUNT
GenericSpecInit ==
    /\ SemInit
    /\ OverflowIdle
    /\ RetryIdle
    /\ GenericInit(TryCounts)
GenericSpec == GenericSpecInit /\ [][GenericNext]_vars

\* ------------------------------------------------ queue.py with fairness

\* wait_until_finished "assumes you aren't trying to add more downloads while
\* waiting" (queue.py:99): under FairSpec the callers keep to that, so no add
\* is called during a wait and no wait during an add.
QuietAddCall(c, boe) == ~WaitInProgress /\ AddCall(c, boe)
QuietWaitCall(w) == ~AddInProgress /\ WaitCall(w)

FairNext ==
    \/ \E c \in Callers, boe \in BOOLEAN :
         QuietAddCall(c, boe) /\ UNCHANGED <<ovfvars, retryvars, gdvars>>
    \/ \E c \in Callers : AddAcquire(c) /\ UNCHANGED <<ovfvars, retryvars, gdvars>>
    \/ \E c \in Callers : AddRelease(c) /\ UNCHANGED <<ovfvars, retryvars, gdvars>>
    \/ \E c \in Callers : AddIncrement(c) /\ UNCHANGED <<ovfvars, retryvars, gdvars>>
    \/ \E c \in Callers : AddBegin(c) /\ UNCHANGED <<ovfvars, retryvars, gdvars>>
    \/ \E d \in Downloads, o \in Outcomes :
         Download(d, o) /\ UNCHANGED <<ovfvars, retryvars, gdvars>>
    \/ \E d \in Downloads : HookDecrement(d) /\ UNCHANGED <<ovfvars, retryvars, gdvars>>
    \/ \E d \in Downloads : HookAcquire(d) /\ UNCHANGED <<ovfvars, retryvars, gdvars>>
    \/ \E d \in Downloads : HookRelease(d) /\ UNCHANGED <<ovfvars, retryvars, gdvars>>
    \/ \E w \in Waiters : QuietWaitCall(w) /\ UNCHANGED <<ovfvars, retryvars, gdvars>>
    \/ \E w \in Waiters : WaitAcquire(w) /\ UNCHANGED <<ovfvars, retryvars, gdvars>>
    \/ \E w \in Waiters : WaitRelease(w) /\ UNCHANGED <<ovfvars, retryvars, gdvars>>

\* Every thread that can take its next step eventually takes it, and every
\* fetch terminates; calling add or wait_until_finished is up to the program.
Fairness ==
    /\ \A c \in Callers :
         WF_semvars(AddAcquire(c) \/ AddRelease(c) \/ AddIncrement(c) \/ AddBegin(c))
    /\ \A d \in Downloads :
         WF_semvars((\E o \in Outcomes : Download(d, o))
                    \/ HookDecrement(d) \/ HookAcquire(d) \/ HookRelease(d))
    /\ \A w \in Waiters : WF_semvars(WaitAcquire(w) \/ WaitRelease(w))

FairSpec == Init /\ [][FairNext]_vars /\ Fairness

\* add of queue.py and downloader.py, download() being called again on
\* downloaders that have finished
RecallNext ==
    \/ \E c \in Callers, boe \in BOOLEAN :
         AddCall(c, boe) /\ UNCHANGED <<ovfvars, retryvars, gdvars>>
    \/ \E c \in Callers : AddAcquire(c) /\ UNCHANGED <<ovfvars, retryvars, gdvars>>
    \/ \E c \in Callers : AddRelease(c) /\ UNCHANGED <<ovfvars, retryvars, gdvars>>
    \/ \E c \in Callers : AddIncrement(c) /\ UNCHANGED <<ovfvars, retryvars, gdvars>>
    \/ \E c \in Callers : AddBegin(c) /\ UNCHANGED <<ovfvars, retryvars, gdvars>>
    \/ \E d \in Downloads, o \in Outcomes :
         Download(d, o) /\ UNCHANGED <<ovfvars, retryvars, gdvars>>
    \/ \E d \in Downloads : HookDecrement(d) /\ UNCHANGED <<ovfvars, retryvars, gdvars>>
    \/ \E d \in Downloads : HookAcquire(d) /\ UNCHANGED <<ovfvars, retryvars, gdvars>>
    \/ \E d \in Downloads : HookRelease(d) /\ UNCHANGED <<ovfvars, retryvars, gdvars>>
    \/ \E d \in Downloads : DownloadAgain(d) /\ UNCHANGED <<ovfvars, retryvars, gdvars>>

RecallSpec == Init /\ [][RecallNext]_vars

\* queue.py and downloader.py, wait_until_finished being called by several
\* threads, the program not adding and draining at the same time
DrainInit == DrainSemInit /\ OverflowIdle /\ RetryIdle /\ GenericIdle

DrainNext ==
    \/ \E c \in Callers, boe \in BOOLEAN :
         QuietAddCall(c, boe) /\ UNCHANGED <<ovfvars, retryvars, gdvars>>
    \/ \E c \in Callers : AddAcquire(c) /\ UNCHANGED <<ovfvars, retryvars, gdvars>>
    \/ \E c \in Callers : AddRelease(c) /\ UNCHANGED <<ovfvars, retryvars, gdvars>>
    \/ \E c \in Callers : AddIncrement(c) /\ UNCHANGED <<ovfvars, retryvars, gdvars>>
    \/ \E c \in Callers : AddBegin(c) /\ UNCHANGED <<ovfvars, retryvars, gdvars>>
    \/ \E d \in Downloads, o \in Outcomes :
         Download(d, o) /\ UNCHANGED <<ovfvars, retryvars, gdvars>>
    \/ \E d \in Downloads : HookDecrement(d) /\ UNCHANGED <<ovfvars, retryvars, gdvars>>
    \/ \E d \in Downloads : HookAcquire(d) /\ UNCHANGED <<ovfvars, retryvars, gdvars>>
    \/ \E d \in Downloads : HookRelease(d) /\ UNCHANGED <<ovfvars, retryvars, gdvars>>
    \/ \E w \in Drainers : QuietWaitCall(w) /\ UNCHANGED <<ovfvars, retryvars, gdvars>>
    \/ \E w \in Drainers : WaitAcquire(w) /\ UNCHANGED <<ovfvars, retryvars, gdvars>>
    \/ \E w \in Drainers : WaitRelease(w) /\ UNCHANGED <<ovfvars, retryvars, gdvars>>

DrainSpec == DrainInit /\ [][DrainNext]_vars

\* ----------------------------------- queue.py used through a with block

\* The waiter threads use the queue as a context manager. As under FairSpec
\* no add is called while a thread is inside wait_until_finished, and a with
\* block is not left while an add is in progress.
QuietScopeExit(w, exc) == ~AddInProgress /\ ScopeExit(w, exc)

ScopeNext ==
    \/ \E c \in Callers, boe \in BOOLEAN :
         QuietAddCall(c, boe) /\ UNCHANGED <<ovfvars, retryvars, gdvars>>
    \/ \E c \in Callers : AddAcquire(c) /\ UNCHANGED <<ovfvars, retryvars, gdvars>>
    \/ \E c \in Callers : AddRelease(c) /\ UNCHANGED <<ovfvars, retryvars, gdvars>>
    \/ \E c \in Callers : AddIncrement(c) /\ UNCHANGED <<ovfvars, retryvars, gdvars>>
    \/ \E c \in Callers : AddBegin(c) /\ UNCHANGED <<ovfvars, retryvars, gdvars>>
    \/ \E d \in Downloads, o \in Outcomes :
         Download(d, o) /\ UNCHANGED <<ovfvars, retryvars, gdvars>>
    \/ \E d \in Downloads : HookDecrement(d) /\ UNCHANGED <<ovfvars, retryvars, gdvars>>
    \/ \E d \in Downloads : HookAcquire(d) /\ UNCHANGED <<ovfvars, retryvars, gdvars>>
    \/ \E d \in Downloads : HookRelease(d) /\ UNCHANGED <<ovfvars, retryvars, gdvars>>
    \/ \E w \in Waiters : ScopeEnter(w) /\ UNCHANGED <<ovfvars, retryvars, gdvars>>
    \/ \E w \in Waiters, exc \in BOOLEAN :
         QuietScopeExit(w, exc) /\ UNCHANGED <<ovfvars, retryvars, gdvars>>
    \/ \E w \in Waiters : WaitAcquire(w) /\ UNCHANGED <<ovfvars, retryvars, gdvars>>
    \/ \E w \in Waiters : WaitRelease(w) /\ UNCHANGED <<ovfvars, retryvars, gdvars>>

ScopeSpec == Init /\ [][ScopeNext]_vars

\* ------------------------------------------ queue.py from its constructor

CtorInit == SemNew /\ OverflowIdle /\ RetryIdle /\ GenericIdle

CtorNext ==
    \/ Construct /\ UNCHANGED <<ovfvars, retryvars, gdvars>>
    \/ \E c \in Callers, boe \in BOOLEAN :
         AddCall(c, boe) /\ UNCHANGED <<ovfvars, retryvars, gdvars>>
    \/ \E c \in Callers : AddAcquire(c) /\ UNCHANGED <<ovfvars, retryvars, gdvars>>
    \/ \E c \in Callers : AddRelease(c) /\ UNCHANGED <<ovfvars, retryvars, gdvars>>
    \/ \E c \in Callers : AddIncrement(c) /\ UNCHANGED <<ovfvars, retryvars, gdvars>>
    \/ \E c \in Callers : AddBegin(c) /\ UNCHANGED <<ovfvars, retryvars, gdvars>>
    \/ \E d \in Downloads, o \in Outcomes :
         Download(d, o) /\ UNCHANGED <<ovfvars, retryvars, gdvars>>
    \/ \E d \in Downloads : HookDecrement(d) /\ UNCHANGED <<ovfvars, retryvars, gdvars>>
    \/ \E d \in Downloads : HookAcquire(d) /\ UNCHANGED <<ovfvars, retryvars, gdvars>>
    \/ \E d \in Downloads : HookRelease(d) /\ UNCHANGED <<ovfvars, retryvars, gdvars>>
    \/ \E w \in Waiters : WaitCall(w) /\ UNCHANGED <<ovfvars, retryvars, gdvars>>
    \/ \E w \in Waiters : WaitAcquire(w) /\ UNCHANGED <<ovfvars, retryvars, gdvars>>
    \/ \E w \in Waiters : WaitRelease(w) /\ UNCHANGED <<ovfvars, retryvars, gdvars>>

\* DownloadQueue(length) for every length of LengthArgs, then its use
CtorSpec == CtorInit /\ [][CtorNext]_vars

\* ------------------------------------------- queue.py with its finalizer

DelNext ==
    \/ \E c \in Callers, boe \in BOOLEAN :
         QuietAddCall(c, boe) /\ UNCHANGED <<ovfvars, retryvars, gdvars>>
    \/ \E c \in Callers : AddAcquire(c) /\ UNCHANGED <<ovfvars, retryvars, gdvars>>
    \/ \E c \in Callers : AddRelease(c) /\ UNCHANGED <<ovfvars, retryvars, gdvars>>
    \/ \E c \in Callers : AddIncrement(c) /\ UNCHANGED <<ovfvars, retryvars, gdvars>>
    \/ \E c \in Callers : AddBegin(c) /\ UNCHANGED <<ovfvars, retryvars, gdvars>>
    \/ \E d \in Downloads, o \in Outcomes :
         Download(d, o) /\ UNCHANGED <<ovfvars, retryvars, gdvars>>
    \/ \E d \in Downloads : HookDecrement(d) /\ UNCHANGED <<ovfvars, retryvars, gdvars>>
    \/ \E d \in Downloads : HookAcquire(d) /\ UNCHANGED <<ovfvars, retryvars, gdvars>>
    \/ \E d \in Downloads : HookRelease(d) /\ UNCHANGED <<ovfvars, retryvars, gdvars>>
    \/ \E w \in Waiters : QuietWaitCall(w) /\ UNCHANGED <<ovfvars, retryvars, gdvars>>
    \/ \E w \in Waiters : DelCall(w) /\ UNCHANGED <<ovfvars, retryvars, gdvars>>
    \/ \E w \in Waiters : WaitAcquire(w) /\ UNCHANGED <<ovfvars, retryvars, gdvars>>
    \/ \E w \in Waiters : WaitRelease(w) /\ UNCHANGED <<ovfvars, retryvars, gdvars>>
    \/ \E w \in Waiters : DelReturn(w) /\ UNCHANGED <<ovfvars, retryvars, gdvars>>

\* Every thread that can take its next step eventually takes it, and every
\* fetch terminates; calling add or __del__ is up to the program.
DelFairness ==
    /\ \A c \in Callers :
         WF_semvars(AddAcquire(c) \/ AddRelease(c) \/ AddIncrement(c) \/ AddBegin(c))
    /\ \A d \in Downloads :
         WF_semvars((\E o \in Outcomes : Download(d, o))
                    \/ HookDecrement(d) \/ HookAcquire(d) \/ HookRelease(d))
    /\ \A w \in Waiters :
         WF_semvars(WaitAcquire(w) \/ WaitRelease(w) \/ DelReturn(w))

DelSpec == Init /\ [][DelNext]_vars /\ DelFairness

\* ------------------------------------------------------------ the claims

RECURSIVE SumOver(_, _)
SumOver(f, S) ==
    IF S = {} THEN 0
    ELSE LET x == CHOOSE y \in S : TRUE IN f[x] + SumOver(f, S \ {x})

\* C1: under any interleaving of add calls and downloader completions, the
\* live count `length` never exceeds the capacity max_length.
C1_LengthWithinCapacity == length <= max_length

\* The gate is full and one more add is waiting for a slot.
C1_Witness ==
    /\ length = max_length
    /\ \E c \in Callers : cpc[c] = "acquire"

\* C2: every downloader started by add invokes the completion hook exactly
\* once per run of download(), whether the fetch succeeded, failed and was
\* absorbed, or failed and was re-raised; and the gate's accounting is the
\* same in all three cases: length counts exactly the downloads between the
\* increment in add and the decrement in the hook, and every slot of
\* _available_s is free, held by a waiter, or held by an add or a download
\* that has not yet released it, whatever the outcome of the fetch.
C2_HookExactlyOnce ==
    /\ \A d \in Downloads :
         /\ dpc[d] \in {"new", "init", "running"} => hooks[d] = 0
         /\ dpc[d] \in {"hook_dec", "hook_acquire", "hook_release"} => hooks[d] = 1
         /\ Finished(d) =>
              /\ hooks[d] = 1
              /\ outcome[d] \in Outcomes
              /\ dpc[d] = "raised" <=> (outcome[d] # "ok" /\ block_on_error[d])
    /\ length = Cardinality({c \in Callers : cpc[c] = "begin"})
                + Cardinality({d \in Downloads : Live(d)})
    /\ available_s + SumOver(wcnt, Waiters)
         + Cardinality({c \in Callers : cpc[c] \in {"release", "increment", "begin"}})
         + Cardinality({d \in Downloads : Busy(d)}) = max_length

\* Three downloads have ended, one in each way, each having reported once,
\* and the gate is back to empty.
C2_Witness ==
    /\ \E d1, d2, d3 \in Downloads :
         /\ dpc[d1] = "done" /\ outcome[d1] = "ok"
         /\ dpc[d2] = "done" /\ outcome[d2] = "fail"
         /\ dpc[d3] = "raised" /\ outcome[d3] = "fail"
         /\ hooks[d1] = 1 /\ hooks[d2] = 1 /\ hooks[d3] = 1
    /\ length = 0
    /\ available_s = max_length

C5_BlocksWhileFull ==
    /\ \A c \in Callers :
         /\ cpc[c] \in {"acquire", "release", "increment", "begin"} =>
               dpc[cdl[c]] = "init"
         /\ (fullAtCall[c] /\ cpc[c] \in {"release", "increment", "begin"}) =>
               released > relAtCall[c]
    /\ \A d \in Downloads :
         dpc[d] = "init" => \E c \in Callers : cpc[c] # "idle" /\ cdl[c] = d

\* C5: add called while max_length downloads are active blocks until an
\* active download has reported completion, and, every fetch terminating,
\* the blocked add eventually returns (with its downloader started).
C5_BlockedAddResumes ==
    /\ []C5_BlocksWhileFull
    /\ \A c \in Callers : (cpc[c] = "acquire") ~> (cpc[c] = "idle")

\* An add that was called on a full gate has returned.
C5_Witness ==
    \E c \in Callers :
        /\ fullAtCall[c]
        /\ cpc[c] = "idle"
        /\ released > relAtCall[c]
        /\ ndl = NumDownloads
        /\ \A d \in Downloads : dpc[d] \notin {"new", "init"}

\* The step the caller takes next inside add of download_queue.py.
GateStep == GateAddOrQueue \/ GateAppend \/ GateStart \/ GateEnqueue

Active(t) ==
    tpc[t] \in {"running", "remove", "remove_check", "dequeue", "pointer",
                "pointer_len", "pop", "promote", "promote_start"}
\* No add is in progress and no thread has a step left.
Quiescent == apc = "idle" /\ \A t \in Threads : ~Active(t)

\* C6 (first part): after n adds, none of the downloads having finished,
\* min(n, queue_span) threads are started and the other n - queue_span are in
\* the overflow queue.
C6_ExactlyKHeld ==
    (apc = "idle" /\ nfinished = 0) =>
        /\ Len(queue_contents) = (IF nthreads < queue_span THEN nthreads ELSE queue_span)
        /\ Len(overflow_queue) = nthreads - Len(queue_contents)

\* C6: submitting queue_span + K requests while none has finished leaves
\* queue_span started threads and K held ones, and all of them are started
\* and complete: once add has returned and no thread has a step left, every
\* thread that was created has run to its end.
C6_AllComplete ==
    /\ C6_ExactlyKHeld
    /\ Quiescent => \A t \in Threads : tpc[t] \in {"new", "done", "raised"}

\* Position of a thread in the order the threads were held (0: never held).
HeldAt(t) ==
    IF \E i \in 1..Len(enqueued) : enqueued[i] = t
    THEN CHOOSE i \in 1..Len(enqueued) : enqueued[i] = t
    ELSE 0

\* C7: held threads are promoted first in, first out: of two held threads,
\* the one held later is never started while the one held earlier is not.
C7_PromotionIsFifo ==
    \A t1, t2 \in Threads :
        (HeldAt(t1) > 0 /\ HeldAt(t1) < HeldAt(t2) /\ tpc[t2] # "held") =>
            tpc[t1] # "held"

\* C8: remove takes the reporting thread out of _queue_contents, and, when
\* the overflow queue is not empty, takes exactly one held thread out of it
\* and starts it, so that over the call len(_queue_contents) is unchanged and
\* len(_overflow_queue) is one less; when the overflow queue is empty,
\* len(_queue_contents) is one less and nothing is started.
C8_RemovePromotesOne ==
    \A t \in Threads :
        tpc[t] \in {"done", "raised"} =>
            IF sawHeld[t]
            THEN /\ dLive[t] = 0
                 /\ dHeld[t] = -1
                 /\ tpop[t] # 0
                 /\ tpc[tpop[t]] # "held"
            ELSE /\ dLive[t] = -1
                 /\ dHeld[t] = 0
                 /\ tpop[t] = 0

\* wait_to_finish of download_queue.py, called with no add in progress and
\* none made afterwards, returns only when every download added has finished.
\* The two lengths of _all_complete are read one after the other with no
\* lock, so this does not hold: a held thread can be popped from the overflow
\* queue and appended to the started ones between the two reads.
WaitToFinishReturnsWhenIdle ==
    (fpc = "returned" /\ fclean) => nfinished = nthreads

\* A step of the running call of wrapped.
RetryStep ==
    \/ Wrapped
    \/ \E o \in Outcomes, v \in Values : RecursivelyInvoke(o, v)
    \/ SleepAndRetry

\* The attempts so far all raised an exception other than KeyboardInterrupt.
AllFailed == \A i \in 1..Len(history) : history[i].o = "fail"

\* C9: with effective attempt count N = attempt_count, a function that
\* raises on every attempt is invoked exactly N times, time.sleep is called
\* exactly N - 1 times, never after the last attempt, and the exception then
\* propagates to the caller.
C9_AlwaysFailing ==
    /\ AllFailed =>
         /\ calls = Len(history)
         /\ calls <= attempt_count
         /\ (calls = attempt_count /\ rpc # "idle") =>
               (rpc = "raised" /\ sleeps = attempt_count - 1)
         /\ rpc = "sleep" => (calls < attempt_count /\ sleeps = calls - 1)
         /\ rpc = "invoke" => sleeps = calls
    /\ rpc = "raised" =>
         /\ AllFailed
         /\ calls = attempt_count
         /\ sleeps = attempt_count - 1
         /\ ~ENABLED RetryStep

\* Three attempts were asked for and each has failed.
C9_Witness ==
    /\ rpc = "raised"
    /\ has_attempt_count
    /\ self_attempt_count = MaxAttemptCount
    /\ calls = MaxAttemptCount
    /\ sleeps = MaxAttemptCount - 1

\* C10: when the function raises on attempts 1..k-1 and returns on attempt
\* k <= N, wrapped returns the value of attempt k, the function having been
\* invoked exactly k times and time.sleep called exactly k - 1 times; nothing
\* follows the return.
C10_SucceedsOnAttemptK ==
    rpc = "returned" =>
        LET k == Len(history) IN
            /\ k >= 1
            /\ k <= attempt_count
            /\ history[k].o = "ok"
            /\ \A i \in 1..(k - 1) : history[i].o = "fail"
            /\ result = history[k].v
            /\ calls = k
            /\ sleeps = k - 1
            /\ ~ENABLED RetryStep

\* The function has failed twice and then returned a value.
C10_Witness ==
    /\ rpc = "returned"
    /\ Len(history) = 3
    /\ result = "v2"
    /\ calls = 3
    /\ sleeps = 2

\* C11: a KeyboardInterrupt raised by the function on attempt i leaves
\* wrapped at once: the function has been invoked exactly i times, time.sleep
\* exactly i - 1 times (none after the interrupted attempt), nothing is logged
\* or returned, and no step of the call follows, whatever is left of the
\* attempt count.
C11_InterruptPropagates ==
    /\ (history # <<>> /\ history[Len(history)].o = "interrupt") =>
          rpc = "interrupted"
    /\ rpc = "interrupted" =>
          LET i == Len(history) IN
              /\ i >= 1
              /\ history[i].o = "interrupt"
              /\ \A j \in 1..(i - 1) : history[j].o = "fail"
              /\ calls = i
              /\ sleeps = i - 1
              /\ logged = 0
              /\ result = "noresult"
              /\ ~ENABLED RetryStep

\* An attempt that was not the last one allowed has been interrupted, after
\* an attempt that failed.
C11_Witness ==
    /\ rpc = "interrupted"
    /\ attempt_count = MaxAttemptCount
    /\ calls = 2
    /\ calls < attempt_count
    /\ sleeps = 1

\* C12: the exception that leaves wrapped after N failed attempts carries
\* the exceptions of all N attempts, one per attempt and in order, on its
\* __context__ chain: the traceback of test_generic_downloader.py lists as
\* many errors as attempts were made.
C12_EveryAttemptRecorded ==
    rpc = "raised" =>
        /\ Len(context) = attempt_count
        /\ \A k \in 1..Len(context) : context[k] = k

\* Three attempts have failed and the exception has left wrapped.
C12_Witness ==
    /\ rpc = "raised"
    /\ attempt_count = MaxAttemptCount
    /\ Len(context) = MaxAttemptCount

\* The attempt count and the wait a call of _download has to use, given the
\* downloader's attributes at the call.
EffectiveCount ==
    IF ~has_attempt_count THEN DefaultAttemptCount
    ELSE IF self_attempt_count <= 0 THEN 1
    ELSE self_attempt_count
EffectiveWait ==
    IF ~has_attempt_interval THEN DefaultAttemptInterval
    ELSE IF self_attempt_interval < 0 THEN 0
    ELSE self_attempt_interval

\* C13: every call of _download resolves its attempt count and its wait from
\* the downloader's attempt_count and attempt_interval as they are at that
\* call, takes 10 and 3 for an absent attribute, and clamps them: a count
\* <= 0 gives exactly one attempt, a negative wait a wait of 0. The call
\* behaves accordingly: it gives up after that many attempts and sleeps that
\* long between two attempts.
C13_ParametersResolved ==
    rpc # "idle" =>
        /\ attempt_count = EffectiveCount
        /\ attempt_delay = EffectiveWait
        /\ attempt_count >= 1
        /\ attempt_delay >= 0
        /\ calls <= EffectiveCount
        /\ waited = sleeps * EffectiveWait
        /\ (rpc = "raised" => calls = EffectiveCount)
        /\ ((has_attempt_count /\ self_attempt_count <= 0 /\ rpc = "raised")
              => (calls = 1 /\ sleeps = 0))

\* A second call, made with a count of 0 and a negative wait after a first
\* call that had other parameters, has failed after its single attempt.
C13_Witness ==
    /\ invocations = 2
    /\ rpc = "raised"
    /\ has_attempt_count /\ self_attempt_count <= 0
    /\ has_attempt_interval /\ self_attempt_interval < 0
    /\ calls = 1
    /\ attempt_count = 1
    /\ attempt_delay = 0

\* The with block of thread w has closed: __exit__ has returned.
Closed(w) == spc[w] = "exit" /\ wpc[w] = "returned"

\* C14: when the with block on a DownloadQueue is left, normally or by an
\* exception, __exit__ returns only after every downloader whose add
\* returned inside the block has run its completion hook to the end; and,
\* no add having been in progress since __exit__ was called, nothing is live
\* when it returns: length is 0 and no downloader's thread is running.
C14_ExitDrains ==
    \A w \in Waiters :
        Closed(w) =>
            /\ \A d \in sadded[w] : Finished(d) /\ hooks[d] = 1
            /\ clean[w] => (length = 0 /\ \A d \in Downloads : ~Busy(d))

\* A with block in which two downloads were added has been left by an
\* exception while downloads were running, and has closed.
C14_Witness ==
    \E w \in Waiters :
        /\ Closed(w)
        /\ sexc[w]
        /\ clean[w]
        /\ busyAtCall[w]
        /\ Cardinality(sadded[w]) >= 2

\* C15: a fetch that failed leaves download() as an exception exactly when
\* block_on_error is set, and then only after the completion hook has run;
\* without block_on_error download() returns, the failure showing only in
\* the hook having been called with complete still False.
C15_FailureEscapesOnlyWhenBlocking ==
    \A d \in Downloads :
        /\ dpc[d] = "raised" =>
              (outcome[d] \in {"fail", "interrupt"} /\ block_on_error[d] /\ hooks[d] = 1)
        /\ (Finished(d) /\ outcome[d] # "ok" /\ ~block_on_error[d]) =>
              (dpc[d] = "done" /\ hooks[d] = 1 /\ ~complete[d])
        /\ (Finished(d) /\ outcome[d] # "ok" /\ block_on_error[d]) =>
              (dpc[d] = "raised" /\ ~complete[d])
        /\ (Finished(d) /\ outcome[d] = "ok") => dpc[d] = "done"

\* One failed fetch was absorbed and another, with block_on_error, re-raised.
C15_Witness ==
    \E d1, d2 \in Downloads :
        /\ dpc[d1] = "done" /\ outcome[d1] = "fail" /\ ~block_on_error[d1]
        /\ dpc[d2] = "raised" /\ outcome[d2] = "fail" /\ block_on_error[d2]
        /\ length = 0

C17_CapacityValidated ==
    /\ qpc = "ready" => capacity >= 1
    /\ \A c \in Callers :
         (cpc[c] = "acquire" /\ available_s = 0) =>
             \/ \E d \in Downloads : Busy(d)
             \/ \E c2 \in Callers : cpc[c2] \in {"release", "increment", "begin"}
             \/ \E w \in Waiters : wcnt[w] > 0

\* A downloader that add has counted in and whose completion handler has not
\* yet decremented length.
CountedIn(d) ==
    \/ Live(d)
    \/ \E c \in Callers : cpc[c] = "begin" /\ cdl[c] = d

\* C18: length is the number of downloaders add has counted in and whose
\* completion handler has not yet run its decrement; it is never negative,
\* and it is 0 whenever there is no such downloader.
C18_LengthCountsLive ==
    /\ length >= 0
    /\ length = Cardinality({d \in Downloads : CountedIn(d)})
    /\ (\A d \in Downloads : ~CountedIn(d)) => length = 0

\* Two adds have incremented length one right after the other, and one of
\* the two downloads has since reported.
C18_Witness ==
    /\ length = 1
    /\ ndl >= 2
    /\ \E d \in Downloads : dpc[d] \in {"hook_acquire", "hook_release", "done"}
    /\ \E c \in Callers : cpc[c] = "begin"

\* C19: a finalizer that found length > 0 waits for the active downloads
\* and then returns: once __del__ holds the lock it eventually has released
\* it, with length 0.
C19_FinalizerTerminates ==
    \A w \in Waiters :
        (queue_lock = w) ~> (qpc = "finalized" /\ queue_lock = 0 /\ length = 0)

\* C20: in download_queue.py the number of started threads that have not
\* been removed never exceeds queue_span.
C20_LiveWithinSpan == Len(queue_contents) <= queue_span

\* C21: remove of download_queue.py never calls dequeue on an empty
\* overflow queue: no thread stands at the first statement of dequeue with
\* nothing held, and no thread ends with OverflowQueueIsEmptyException.
C21_NeverDequeuesEmpty ==
    \A t \in Threads :
        /\ tpc[t] = "dequeue" => ~IsEmpty
        /\ texc[t] # "OverflowQueueIsEmptyException"

\* C22: a KeyboardInterrupt raised during the fetch always leaves
\* Downloader.download as an exception, whatever block_on_error is.
C22_InterruptNeverAbsorbed ==
    \A d \in Downloads :
        (outcome[d] = "interrupt" /\ dpc[d] \in {"done", "raised"}) =>
            dpc[d] = "raised"

\* C23: a call of add in which the construction of the downloader raises
\* leaves the gate as it was: _available_s, _downloads_s and length keep
\* their values, no downloader is counted and no thread is started.
C23_RejectedAddLeavesGate ==
    [][nraised' # nraised =>
          /\ available_s' = available_s
          /\ downloads_s' = downloads_s
          /\ length' = length
          /\ ndl' = ndl
          /\ dpc' = dpc
          /\ cpc' = cpc]_vars

\* add has raised out of the constructor on a gate with a download running
\* and a slot free.
C23_Witness ==
    /\ nraised > 0
    /\ length = 1
    /\ available_s = capacity - 1
    /\ \E d \in Downloads : dpc[d] = "running"

\* C24: download() called on a downloader whose complete is True raises
\* RuntimeError and does nothing else: the fetch is not made and the hook is
\* not invoked, so the hook of a downloader that succeeded runs once.
C24_CompletedIsNotRerun ==
    /\ [](\A d \in Downloads :
            dpc[d] = "runtimeerror" => (complete[d] /\ outcome[d] = "ok"))
    /\ [][\A d \in Downloads :
            complete[d] => (hooks'[d] = hooks[d] /\ complete'[d])]_vars
    /\ [][\A d \in Downloads :
            (dpc[d] = "running" /\ complete[d] /\ dpc'[d] # "running") =>
                /\ dpc'[d] = "runtimeerror"
                /\ hooks' = hooks
                /\ outcome' = outcome
                /\ complete' = complete
                /\ length' = length
                /\ available_s' = available_s
                /\ downloads_s' = downloads_s]_vars

\* A downloader that succeeded was asked to download again and raised, and
\* one that failed was downloaded a second time.
C24_Witness ==
    \E d1, d2 \in Downloads :
        /\ dpc[d1] = "runtimeerror"
        /\ hooks[d2] = 2

\* The slots of _available_s that are held: one by each add between its
\* acquire and begin, one by each downloader from its start to the end of
\* its hook, and those the drains have acquired.
SlotsHeld ==
    Cardinality({c \in Callers : cpc[c] \in {"release", "increment", "begin"}})
    + Cardinality({d \in Downloads : Busy(d)})
    + SumOver(wcnt, DOMAIN wcnt)

\* A slot is unavailable only while somebody holds it, so an add blocks only
\* once max_length slots are held.
SlotsAccounted ==
    /\ available_s = capacity - SlotsHeld
    /\ \A c \in Callers :
          (cpc[c] = "acquire" /\ available_s = 0) => SlotsHeld = capacity

DrainBlocked(w) == wpc[w] = "acquiring" /\ available_s = 0

\* C26: concurrent calls of wait_until_finished do not deadlock each other:
\* with no add in progress, never are all the slots held by drains that are
\* each waiting for one more.
C26_DrainsDoNotDeadlock ==
    ~(/\ ~AddInProgress
      /\ \A d \in Downloads : ~Busy(d)
      /\ \E w1, w2 \in Drainers :
            /\ w1 # w2
            /\ DrainBlocked(w1) /\ wcnt[w1] > 0
            /\ DrainBlocked(w2) /\ wcnt[w2] > 0)

\* C27: the values of _available_s and _downloads_s never add up to more
\* than max_length; no release of either BoundedSemaphore raises ValueError,
\* and the non-blocking acquire of _downloads_s in _complete_handler always
\* finds a unit to take.
C27_SemaphoreBookkeeping ==
    /\ available_s + downloads_s <= capacity
    /\ available_s \in 0..capacity
    /\ downloads_s \in 0..capacity
    /\ \A c \in Callers : cpc[c] # "valueerror"
    /\ \A d \in Downloads : dpc[d] # "valueerror"
    /\ \A w \in Waiters : wpc[w] # "valueerror"
    /\ \A d \in Downloads : dpc[d] = "hook_acquire" => downloads_s > 0

\* Both semaphores are at their bounds while a hook is about to take its
\* unit of _downloads_s back and a drain is waiting.
C27_Witness ==
    /\ downloads_s = capacity
    /\ available_s = 0
    /\ \E d \in Downloads : dpc[d] = "hook_acquire"
    /\ \E w \in Waiters : wpc[w] = "acquiring"

\* Thread t is inside remove of download_queue.py, past its first statement.
InRemove(t) ==
    tpc[t] \in {"remove_check", "dequeue", "pointer", "pointer_len", "pop",
                "promote", "promote_start"}

\* C28: in download_queue.py no request is stranded: whenever no add and no
\* remove is in the middle of its execution, a non-empty overflow queue
\* means that exactly queue_span threads are started and not yet removed.
C28_NothingStranded ==
    (apc = "idle" /\ \A t \in Threads : ~InRemove(t)) =>
        (Len(overflow_queue) > 0 => Len(queue_contents) = queue_span)

\* C29: GenericDownload.download whose transfer raises an exception on every
\* attempt makes the transfer exactly MINIMUM_ATTEMPT_COUNT times, then
\* raises the exception, and status ends as Failed.
C29_FailsAfterAllAttempts ==
    (/\ gd_invocations = 1
     /\ gd_pc \in {"returned", "raised"}
     /\ \A i \in 1..Len(gd_history) : gd_history[i] = "fail") =>
        /\ transfers = try_count
        /\ gd_pc = "raised"
        /\ status = "Failed"
====
